---------------------------- MODULE Spec2Model ----------------------------
(***************************************************************************)
(* Mini-Notes (rluetken-dev/notes-frontend): the note collection, its      *)
(* persistence, the JSON backup (export / import / merge) and the          *)
(* synchronisation of the local collection with the optional backend.      *)
(*                                                                         *)
(* Specifications:                                                         *)
(*   Spec        the app wired to the backend API (app.js, API version)    *)
(*   SpecMerge   mergeNotes (src/src/backup.js) as a pure function         *)
(*   SpecBackup  exportNotes, parseImportedFile, mergeNotes round trip     *)
(*   SpecImport  the import of a chosen file                               *)
(*   SpecTags, SpecQuery, SpecRender, SpecLoad                             *)
(*               extractTags / parseQuery, matchesQuery, render's list,    *)
(*               loadNotes as pure functions                               *)
(*   SpecApi     the four remote helpers over every outcome of fetch       *)
(*   SpecToMs, SpecNormalize                                               *)
(*               toMs and the id and pinned of a normalized remote record  *)
(*   SpecTime    timeAgo (src/src/time.js) as a pure function              *)
(*   SpecTheme   the theme controller (src/src/theme.js)                   *)
(*   SpecProbe   the health indicator with overlapping probes (fair)       *)
(*   SpecRead    Spec with requests that are never answered (fair)         *)
(***************************************************************************)
EXTENDS Integers, Sequences, FiniteSets, TLC

VARIABLES
    notes,       \* app: the in-memory array `notes`
    blob,        \* app: localStorage['mini-notes.v1']
    remote,      \* backend: its notes and the next id it assigns
    apiOnline,   \* app: the flag `apiOnline`
    editingId,   \* app: `editingId` ("" is null)
    pending,     \* app: per handler, where it is suspended (await)
    lastOp,      \* history: the handler that completed last
    ops,         \* history: number of handlers the user has started
    mBase,       \* mergeNotes: the argument `existing`
    mIncoming,   \* mergeNotes: the argument `incoming`
    mResult,     \* mergeNotes: the returned array
    mDone,       \* mergeNotes has returned
    bNotes,      \* backup: the array handed to exportNotes (import: the
                 \* collection the import meets)
    bFile,       \* backup: the JSON document of the downloaded file
    bParsed,     \* backup: what parseImportedFile resolved to
    bMerged,     \* backup: mergeNotes(parsed notes, []) (import: the
                 \* collection after the import)
    bPc,         \* backup: "start", "exported", "parsed", "merged"
    uIn,         \* utils / storage: the arguments of the call
    uOut,        \* utils / storage: what the call returned
    uPc,         \* utils / storage: "start", "done"
    dom,         \* page: what the notes list and the Export button show
    probes,      \* health indicator: the pingApi() calls in flight
    reachable,   \* backend: it answers requests
    themeChoice, \* theme: localStorage['mini-notes.theme'] ("" is null)
    dataTheme,   \* theme: the data-theme attribute of <html> ("" is none)
    prefersDark, \* theme: the OS setting (prefers-color-scheme: dark)
    themePc,     \* theme: "load", "ready" (initThemeController has run)
    themeOp      \* history: the last two theme events

mergeVars == <<mBase, mIncoming, mResult, mDone>>

backupVars == <<bNotes, bFile, bParsed, bMerged, bPc>>

utilVars == <<uIn, uOut, uPc>>

probeVars == <<probes, reachable>>

themeVars == <<themeChoice, dataTheme, prefersDark, themePc, themeOp>>

notesVars ==
    <<notes, blob, remote, apiOnline, editingId, pending, lastOp, ops, dom,
      probes, reachable>>

appVars ==
    <<notes, blob, remote, apiOnline, editingId, pending, lastOp, ops, dom,
      probes, reachable, themeChoice, dataTheme, prefersDark, themePc,
      themeOp>>

vars == <<notes, blob, remote, apiOnline, editingId, pending, lastOp, ops,
          mBase, mIncoming, mResult, mDone,
          bNotes, bFile, bParsed, bMerged, bPc,
          uIn, uOut, uPc, dom, probes, reachable,
          themeChoice, dataTheme, prefersDark, themePc, themeOp>>

(***************************************************************************)
(* Bounds                                                                  *)
(***************************************************************************)
\* longest array handed to mergeNotes
MaxLen == 2
\* largest updatedAt of a note handed to mergeNotes
MaxTs == 1
\* longest array handed to exportNotes
MaxExport == 2
\* number of ids the backend assigns
MaxRemote == 2
\* latest value of Date.now()
MaxClock == 2
\* number of handlers suspended at an await at the same time
MaxPending == 2
\* longest string of the exhaustive inputs of extractTags and parseQuery
MaxText == 4
\* largest number of elements of a rendered collection
MaxShown == 3
\* largest number of elements of a stored array
MaxStored == 3
\* longest string of the exhaustive queries of matchesQuery
MaxQuery == 3
\* largest number of objects in a file chosen for import
MaxFile == 2
\* number of handlers started after page load (clicks, submits, file
\* choices, availability probes) and of failing saves
MaxOps == 2

(***************************************************************************)
(* Notes                                                                   *)
(***************************************************************************)
\* a field that is undefined / missing on the object (n.updatedAt ?? 0)
Absent == -1

Note(id, title, content, createdAt, updatedAt, pinned) ==
    [id |-> id, title |-> title, content |-> content,
     createdAt |-> createdAt, updatedAt |-> updatedAt, pinned |-> pinned]

Range(s) == {s[i] : i \in 1..Len(s)}

Ids(s) == {s[i].id : i \in 1..Len(s)}

(***************************************************************************)
(* backup.js: mergeNotes                                                   *)
(***************************************************************************)
\* (x.updatedAt ?? 0)
TsOf(n) == IF n.updatedAt = Absent THEN 0 ELSE n.updatedAt

\* Map.prototype.get(id) !== undefined
MapHas(map, id) == \E i \in 1..Len(map) : map[i].id = id

\* Map.prototype.get(id), for a key the map holds
MapGet(map, id) == map[CHOOSE i \in 1..Len(map) : map[i].id = id]

\* a bug: every set() appends, a key already present is not replaced
MapSetAppend(map, n) == Append(map, n)

\* Map.prototype.set(n.id, n): a new key is appended (insertion order), a
\* key already present keeps its place and gets the new value.  The map is
\* the sequence of its values in insertion order.
MapSet(map, n) ==
    IF MapHas(map, n.id)
    THEN [i \in 1..Len(map) |-> IF map[i].id = n.id THEN n ELSE map[i]]
    ELSE Append(map, n)

\* a bug: on equal timestamps the existing note is kept (> instead of >=)
PickNewerStrict(m, prev) == IF TsOf(m) > TsOf(prev) THEN m ELSE prev

\* (m.updatedAt ?? 0) >= (prev.updatedAt ?? 0) ? m : prev
PickNewer(m, prev) == IF TsOf(m) >= TsOf(prev) THEN m ELSE prev

\* a bug: the loop over `existing` is skipped
MapOfExistingEmpty(existing) == <<>>

\* for (const n of existing) map.set(n.id, n)
RECURSIVE MapOfExistingFrom(_, _)
MapOfExistingFrom(map, existing) ==
    IF existing = <<>> THEN map
    ELSE MapOfExistingFrom(MapSet(map, Head(existing)), Tail(existing))

MapOfExisting(existing) == MapOfExistingFrom(<<>>, existing)

\* for (const m of incoming) { prev = map.get(m.id); ... }
RECURSIVE MergeIncoming(_, _)
MergeIncoming(map, incoming) ==
    IF incoming = <<>> THEN map
    ELSE LET m == Head(incoming) IN
         MergeIncoming(
             IF ~MapHas(map, m.id)
             THEN MapSet(map, m)
             ELSE MapSet(map, PickNewer(m, MapGet(map, m.id))),
             Tail(incoming))

\* mergeNotes(existing, incoming): Array.from(map.values())
MergeNotes(existing, incoming) ==
    MergeIncoming(MapOfExisting(existing), incoming)

(***************************************************************************)
(* JavaScript values of a note's fields, and their JSON serialisation      *)
(***************************************************************************)
\* A value is tagged with its kind: "string", "number" (finite), "nan"
\* (NaN, Infinity), "infinity" (where it has to be told from NaN),
\* "boolean", "null", "undefined" (also: property missing).
JsStr(x) == [k |-> "string", s |-> x, n |-> 0, b |-> FALSE]
JsNum(x) == [k |-> "number", s |-> "", n |-> x, b |-> FALSE]
JsBool(x) == [k |-> "boolean", s |-> "", n |-> 0, b |-> x]
JsNaN == [k |-> "nan", s |-> "", n |-> 0, b |-> FALSE]
\* Infinity, as JSON.parse gives it for a number like 1e999
JsInf == [k |-> "infinity", s |-> "", n |-> 0, b |-> FALSE]
JsNull == [k |-> "null", s |-> "", n |-> 0, b |-> FALSE]
JsUndef == [k |-> "undefined", s |-> "", n |-> 0, b |-> FALSE]

NoteFields == {"id", "title", "content", "createdAt", "updatedAt", "pinned"}

\* JSON.stringify of one property value: NaN and Infinity are written as
\* null, an undefined property is left out, the rest is written as it is
StringifyValue(v) == IF v.k = "nan" THEN JsNull ELSE v

StringifyNote(o) == [f \in NoteFields |-> StringifyValue(o[f])]

\* JSON.parse of one object of the text: strings, numbers, booleans and null
\* come back as written; a property that is not in the text is undefined
ParseNote(o) == [f \in NoteFields |-> o[f]]

(***************************************************************************)
(* backup.js: isValidNote, sanitizeNotesArray, exportNotes,                *)
(* parseImportedFile                                                       *)
(***************************************************************************)
EXPORT_VERSION == 1

\* a bug: `n.pinned` instead of `typeof n.pinned === 'boolean'`
IsValidNotePinnedTruthy(o) ==
    /\ o.id.k = "string"
    /\ o.title.k = "string"
    /\ o.content.k = "string"
    /\ o.pinned.k = "boolean" /\ o.pinned.b
    /\ o.createdAt.k = "number"
    /\ o.updatedAt.k = "number"

\* isValidNote(n)
IsValidNote(o) ==
    /\ o.id.k = "string"
    /\ o.title.k = "string"
    /\ o.content.k = "string"
    /\ o.pinned.k = "boolean"
    /\ o.createdAt.k = "number"
    /\ o.updatedAt.k = "number"

\* sanitizeNotesArray(arr), arr an array: arr.filter(isValidNote)
RECURSIVE SanitizeNotesArray(_)
SanitizeNotesArray(arr) ==
    IF arr = <<>> THEN <<>>
    ELSE IF IsValidNote(Head(arr))
         THEN <<Head(arr)>> \o SanitizeNotesArray(Tail(arr))
         ELSE SanitizeNotesArray(Tail(arr))

\* the document exportNotes downloads:
\* JSON.stringify({ app, version, exportedAt, notes: safeNotes }, null, 2)
ExportDocument(ns, exportedAt) ==
    [kind |-> "object",
     app |-> "mini-notes",
     version |-> EXPORT_VERSION,
     exportedAt |-> exportedAt,
     notesIsArray |-> TRUE,
     notes |-> [i \in 1..Len(SanitizeNotesArray(ns)) |->
                   StringifyNote(SanitizeNotesArray(ns)[i])]]

\* a bug: a file without valid notes is accepted as an empty import
ParseImportedFileLenient(doc) ==
    IF doc.kind = "invalid"
    THEN [notes |-> <<>>, version |-> Absent, error |-> "Invalid JSON file."]
    ELSE [notes |-> SanitizeNotesArray(
                        [i \in 1..Len(doc.notes) |-> ParseNote(doc.notes[i])]),
          version |-> Absent, error |-> ""]

\* a bug: one invalid object fails the whole file
ParseImportedFileStrict(doc) ==
    IF doc.kind = "invalid"
    THEN [notes |-> <<>>, version |-> Absent, error |-> "Invalid JSON file."]
    ELSE LET maybeNotes ==
                 IF doc.kind = "array" \/ doc.notesIsArray
                 THEN [i \in 1..Len(doc.notes) |-> ParseNote(doc.notes[i])]
                 ELSE <<>>
             cleaned == SanitizeNotesArray(maybeNotes)
         IN  IF cleaned = <<>> \/ Len(cleaned) < Len(maybeNotes)
             THEN [notes |-> <<>>, version |-> Absent,
                   error |-> "No valid notes found in file."]
             ELSE [notes |-> cleaned,
                   version |-> IF doc.kind = "array" THEN Absent
                               ELSE doc.version,
                   error |-> ""]

\* parseImportedFile(file): { notes, meta, error }
\* kind "invalid": JSON.parse throws; "array": the document is an array
\* (its elements in notes); "object": an object (its notes property in
\* notes when notesIsArray)
ParseImportedFile(doc) ==
    IF doc.kind = "invalid"
    THEN [notes |-> <<>>, version |-> Absent, error |-> "Invalid JSON file."]
    ELSE LET maybeNotes ==
                 IF doc.kind = "array" \/ doc.notesIsArray
                 THEN [i \in 1..Len(doc.notes) |-> ParseNote(doc.notes[i])]
                 ELSE <<>>
             cleaned == SanitizeNotesArray(maybeNotes)
         IN  IF cleaned = <<>>
             THEN [notes |-> <<>>, version |-> Absent,
                   error |-> "No valid notes found in file."]
             ELSE [notes |-> cleaned,
                   version |-> IF doc.kind = "array" THEN Absent
                               ELSE doc.version,
                   error |-> ""]

\* a schema-valid object seen as a note of the collection
PlainNote(o) ==
    Note(o.id.s, o.title.s, o.content.s, o.createdAt.n, o.updatedAt.n,
         o.pinned.b)

PlainNotes(arr) == [i \in 1..Len(arr) |-> PlainNote(arr[i])]

(***************************************************************************)
(* app.js (API version): arrays, storage, the backend                      *)
(***************************************************************************)
Titles == {"a", "b"}
Body == "x"
Times == 1..MaxClock

\* an empty slot of a sparse array (reads as undefined)
Hole == [hole |-> TRUE]
\* null in the stored JSON
Null == [null |-> TRUE]

IsHole(x) == "hole" \in DOMAIN x
IsNote(x) == "id" \in DOMAIN x

Solid(ns) == {i \in 1..Len(ns) : IsNote(ns[i])}

NoteIds(ns) == {ns[i].id : i \in Solid(ns)}

NoId == ""

\* storage.js saveNotes: JSON.stringify(notes); an empty slot is written
\* as null
StoredArray(ns) ==
    [kind |-> "array",
     items |-> [i \in 1..Len(ns) |-> IF IsHole(ns[i]) THEN Null ELSE ns[i]]]

MissingBlob == [kind |-> "missing", items |-> <<>>]

\* what the storage key can hold besides a stored array: nothing, a text
\* that is not JSON, or the JSON of another value
OtherKinds ==
    {"missing", "invalid", "object", "number", "zero", "string",
     "emptyString", "true", "false", "null"}

\* JSON.parse(localStorage.getItem(KEY)): getItem gives null for a missing
\* key, and JSON.parse(null) is null
JsonParse(b) ==
    IF b.kind = "missing" THEN [kind |-> "null", items |-> <<>>] ELSE b

\* x || []
Falsy(v) == v.kind \in {"null", "zero", "emptyString", "false"}

EmptyArray == [kind |-> "array", items |-> <<>>]

\* storage.js loadNotes: JSON.parse(localStorage.getItem(KEY)) || [],
\* [] when parsing throws
LoadNotes(b) ==
    IF b.kind = "invalid" THEN EmptyArray
    ELSE IF Falsy(JsonParse(b)) THEN EmptyArray
    ELSE JsonParse(b)

\* findIndex / find with the predicate String(n.id) === String(id), as a
\* 1-based index: 0 when no element matches, -1 when the callback throws
\* (n.id of an empty slot or of null, reached before a match)
RECURSIVE FindIndexFrom(_, _, _)
FindIndexFrom(ns, id, i) ==
    IF i > Len(ns) THEN 0
    ELSE IF ~IsNote(ns[i]) THEN -1
    ELSE IF ns[i].id = id THEN i
    ELSE FindIndexFrom(ns, id, i + 1)

FindIndex(ns, id) == FindIndexFrom(ns, id, 1)

\* notes[i]: undefined beyond the end
ElemAt(ns, i) == IF i <= Len(ns) THEN ns[i] ELSE Hole

\* notes[i] = v: writing beyond the end leaves empty slots in between
SetAt(ns, i, v) ==
    [k \in 1..(IF i > Len(ns) THEN i ELSE Len(ns)) |->
        IF k = i THEN v ELSE IF k <= Len(ns) THEN ns[k] ELSE Hole]

\* { ...a, ...b }: the properties of b override those of a; spreading
\* undefined adds nothing
Spread(a, b) ==
    [f \in (IF IsNote(a) THEN DOMAIN a ELSE {}) \cup DOMAIN b |->
        IF f \in DOMAIN b THEN b[f] ELSE a[f]]

\* notes.unshift(n)
Unshift(ns, n) == <<n>> \o ns

\* notes.filter((n) => n.id !== id): empty slots are skipped
RECURSIVE FilterOutId(_, _)
FilterOutId(ns, id) ==
    IF ns = <<>> THEN <<>>
    ELSE IF IsHole(Head(ns)) THEN FilterOutId(Tail(ns), id)
    ELSE IF Head(ns).id # id
         THEN <<Head(ns)>> \o FilterOutId(Tail(ns), id)
         ELSE FilterOutId(Tail(ns), id)

\* Date.now(): not before any timestamp the app or the backend holds
StampsOf(ns) == UNION {{ns[i].createdAt, ns[i].updatedAt} : i \in Solid(ns)}

Latest ==
    LET S == {1} \cup StampsOf(notes) \cup StampsOf(remote.items)
    IN  CHOOSE x \in S : \A y \in S : y <= x

NowSet == {t \in Times : t >= Latest}

(***************************************************************************)
(* The backend (GET/POST /api/notes, PUT/DELETE /api/notes/{id}): it keeps *)
(* id (a number), title, content, createdAt, updatedAt (epoch ms) and      *)
(* pinned per note                                                         *)
(***************************************************************************)
\* String(id) of the ids the backend assigns
ServerIdNames == <<"1", "2", "3", "4">>

IdString(i) == ServerIdNames[i]

ServerHas(rem, id) ==
    \E i \in 1..Len(rem.items) : IdString(rem.items[i].id) = id

\* POST /api/notes { title, content }
ServerPost(rem, title, content, t) ==
    [items |-> Append(rem.items,
                      [id |-> rem.nextId, title |-> title,
                       content |-> content, createdAt |-> t,
                       updatedAt |-> t, pinned |-> FALSE]),
     nextId |-> rem.nextId + 1]

\* PUT /api/notes/{id} { title, content[, pinned] }; pin is "none" when
\* the payload has no pinned
ServerPut(rem, id, title, content, pin, t) ==
    [rem EXCEPT !.items =
        [i \in 1..Len(rem.items) |->
            IF IdString(rem.items[i].id) = id
            THEN [rem.items[i] EXCEPT
                     !.title = title, !.content = content,
                     !.updatedAt = t,
                     !.pinned = IF pin = "none" THEN @ ELSE pin = "true"]
            ELSE rem.items[i]]]

RECURSIVE DropId(_, _)
DropId(items, id) ==
    IF items = <<>> THEN <<>>
    ELSE IF IdString(Head(items).id) = id THEN DropId(Tail(items), id)
    ELSE <<Head(items)>> \o DropId(Tail(items), id)

\* DELETE /api/notes/{id}
ServerDelete(rem, id) == [rem EXCEPT !.items = DropId(rem.items, id)]

ServerRecordOf(rem, id) ==
    rem.items[CHOOSE i \in 1..Len(rem.items) : IdString(rem.items[i].id) = id]

(***************************************************************************)
(* app.js: loadNotesFromApi, createNoteViaApi, updateNoteViaApi            *)
(***************************************************************************)
\* toMs(v) ?? Date.now(): a number above 1e12 is epoch ms and is kept; a
\* missing value falls back to Date.now().  The backend of this
\* specification sends epoch ms.
ToMs(v, now) == IF v = Absent THEN now ELSE v

\* one item of the API mapped to the Note shape
NormalizeRecord(r, now) ==
    Note(IdString(r.id), r.title, r.content,
         ToMs(r.createdAt, now), ToMs(r.updatedAt, now), r.pinned)

\* loadNotesFromApi(): [] on any error, else the normalized items
LoadNotesFromApi(ok, rem, now) ==
    IF ok
    THEN [i \in 1..Len(rem.items) |-> NormalizeRecord(rem.items[i], now)]
    ELSE <<>>

\* list.find(pred): the first match, Hole (undefined) when there is none
RECURSIVE FindFirst(_, _)
FindFirst(list, matching) ==
    IF list = <<>> THEN Hole
    ELSE IF Head(list) \in matching THEN Head(list)
    ELSE FindFirst(Tail(list), matching)

\* createNoteViaApi, no JSON body: list.find((x) => x.title === title &&
\* x.content === content)
FindCreated(list, title, content) ==
    FindFirst(list, {x \in Range(list) :
                        x.title = title /\ x.content = content})

\* updateNoteViaApi, no JSON body: list.find((x) => String(x.id) ===
\* String(id))
FindUpdated(list, id) == FindFirst(list, {x \in Range(list) : x.id = id})

\* updateNoteViaApi, no JSON body and the note is not in the list:
\* updated = {} is normalized from the arguments and Date.now()
EmptyUpdate(id, title, content, pin, now) ==
    Note(id, title, content, now, now, pin = "true")

(***************************************************************************)
(* app.js: what the handlers assign to `notes`                             *)
(***************************************************************************)
\* a bug: the API result replaces the local notes even when it is empty
HydratedNotesAlways(ns, apiNotes) == apiNotes

\* hydrateNotes: the API notes when there are any, else the local notes
HydratedNotes(ns, apiNotes) == IF Len(apiNotes) > 0 THEN apiNotes ELSE ns

\* refreshFromApi: notes = Array.isArray(apiNotes) ? apiNotes : []
RefreshedNotes(ns, apiNotes) == apiNotes

\* a bug: the note is added although the API call failed
CreatedNotesAlways(ns, created) ==
    Unshift(ns, IF IsNote(created) THEN created
                ELSE Note("?", "", "", 1, 1, FALSE))

\* form submit: notes.unshift(created), unless created is null
CreatedNotes(ns, created) ==
    IF IsNote(created) THEN Unshift(ns, created) ELSE ns

\* editForm submit: notes[idx] = { ...notes[idx], ...updated }
EditedNotes(ns, idx, updated) ==
    SetAt(ns, idx, Spread(ElemAt(ns, idx), updated))

\* toggle-pin: notes[i] = { ...current, ...updated, pinned: updated.pinned }
PinnedNotes(ns, i, current, updated) ==
    SetAt(ns, i, Spread(Spread(current, updated),
                        [pinned |-> updated.pinned]))

\* a bug: the note and everything after it is dropped
DeletedNotesFrom(ns, id) ==
    IF FindIndex(ns, id) > 0 THEN SubSeq(ns, 1, FindIndex(ns, id) - 1) ELSE ns

\* delete: notes = notes.filter((n) => n.id !== id)
DeletedNotes(ns, id) == FilterOutId(ns, id)

\* import: notes = replace ? incoming : mergeNotes(notes, incoming)
ImportedNotes(ns, incoming, replace) ==
    IF replace THEN incoming ELSE MergeNotes(ns, incoming)

(***************************************************************************)
(* app.js: the handlers.  A handler is suspended at each await; the step   *)
(* that resumes it takes the response of the request it awaited.           *)
(***************************************************************************)
Handlers ==
    {"hydrate", "refresh", "create", "edit", "pin", "delete", "import",
     "probe"}

Idle == [stage |-> "idle"]

Active(k) == pending[k].stage \notin {"idle", "init", "done"}

CanStart ==
    /\ ops < MaxOps
    /\ Cardinality({k \in Handlers \ {"probe"} : Active(k)}) < MaxPending

\* DOMContentLoaded has fired
DomReady == pending["hydrate"].stage # "init"

\* what a completed handler leaves in lastOp
Op(kind, result, alerted, writes, id, snap) ==
    [kind |-> kind, result |-> result, alerted |-> alerted,
     writes |-> writes, id |-> id, snap |-> snap,
     pre |-> notes, preBlob |-> blob]

NoOp == [kind |-> "none", result |-> "", alerted |-> FALSE, writes |-> 0,
         id |-> NoId, snap |-> <<>>, pre |-> <<>>,
         preBlob |-> MissingBlob]

\* saveNotes(ns): localStorage.setItem throws when the quota is exceeded
\* and leaves the stored value as it is.  A failing save counts as one of
\* the MaxOps events of a behaviour.
SaveNotes(full, ns, b) == IF full THEN b ELSE StoredArray(ns)

\* the handler ends in its catch block (or, without one, in the exception)
SaveFailed(op, alerted) ==
    [op EXCEPT !.result = "save-fail", !.alerted = alerted]

\* showLoading(message): the list shows the placeholder item
ShowLoading(d) == [d EXCEPT !.loading = TRUE]

\* render(): the list is rebuilt from `notes`, and exportBtn.disabled =
\* !(notes.length > 0)
Rendered(ns) == [loading |-> FALSE, exportDisabled |-> Len(ns) = 0]

\* try { ...; saveNotes(notes); ...; render() } catch: render() is not
\* reached when saveNotes throws
RenderedAfterSave(full, ns, d) == IF full THEN d ELSE Rendered(ns)

\* document.addEventListener('DOMContentLoaded', hydrateNotes)
HydrateStart ==
    /\ pending["hydrate"].stage = "init"
    /\ pending' = [pending EXCEPT !["hydrate"] = [stage |-> "sent"]]
    /\ ops' = ops
    /\ dom' = ShowLoading(dom)
    /\ UNCHANGED <<notes, blob, remote, apiOnline, editingId, lastOp, mergeVars,
                   backupVars, utilVars, probeVars,
                   themeVars>>

\* hydrateNotes after await loadNotesFromApi()
HydrateDone ==
    /\ pending["hydrate"].stage = "sent"
    /\ \E ok \in BOOLEAN, full \in BOOLEAN :
          LET apiNotes == LoadNotesFromApi(ok, remote, Latest)
              op == Op("hydrate", IF ok THEN "ok" ELSE "read-fail",
                       FALSE, 0, NoId, apiNotes)
          IN
          /\ notes' = HydratedNotes(notes, apiNotes)
          /\ full => Len(apiNotes) > 0
          /\ blob' = IF Len(apiNotes) > 0
                     THEN SaveNotes(full, notes', blob) ELSE blob
          /\ full => ops < MaxOps
          /\ lastOp' = IF full THEN SaveFailed(op, FALSE) ELSE op
          /\ ops' = IF full THEN ops + 1 ELSE ops
    /\ pending' = [pending EXCEPT !["hydrate"] = [stage |-> "done"]]
    /\ dom' = Rendered(notes')
    /\ UNCHANGED <<remote, apiOnline, editingId, mergeVars,
                   backupVars, utilVars, probeVars,
                   themeVars>>

\* Refresh button / Ctrl+Shift+R: refreshFromApi up to the await
RefreshStart ==
    /\ DomReady
    /\ CanStart
    /\ pending["refresh"].stage = "idle"
    /\ pending' = [pending EXCEPT !["refresh"] = [stage |-> "sent"]]
    /\ ops' = ops + 1
    /\ dom' = ShowLoading(dom)
    /\ UNCHANGED <<notes, blob, remote, apiOnline, editingId, lastOp, mergeVars,
                   backupVars, utilVars, probeVars,
                   themeVars>>

\* refreshFromApi after await loadNotesFromApi()
RefreshDone ==
    /\ pending["refresh"].stage = "sent"
    /\ \E ok \in BOOLEAN, full \in BOOLEAN :
          LET apiNotes == LoadNotesFromApi(ok, remote, Latest)
              op == Op("refresh", IF ok THEN "ok" ELSE "read-fail",
                       FALSE, 0, NoId, apiNotes)
          IN
          /\ notes' = RefreshedNotes(notes, apiNotes)
          /\ blob' = SaveNotes(full, notes', blob)
          /\ full => ops < MaxOps
          /\ lastOp' = IF full THEN SaveFailed(op, TRUE) ELSE op
          /\ ops' = IF full THEN ops + 1 ELSE ops
          /\ dom' = RenderedAfterSave(full, notes', dom)
    /\ pending' = [pending EXCEPT !["refresh"] = Idle]
    /\ UNCHANGED <<remote, apiOnline, editingId, mergeVars,
                   backupVars, utilVars, probeVars,
                   themeVars>>

\* form submit: up to await createNoteViaApi -> fetch(POST)
CreateStart(title) ==
    /\ DomReady
    /\ CanStart
    /\ apiOnline
    /\ pending["create"].stage = "idle"
    /\ pending' = [pending EXCEPT !["create"] =
                      [stage |-> "sent", title |-> title, writes |-> 1]]
    /\ ops' = ops + 1
    /\ dom' = dom
    /\ UNCHANGED <<notes, blob, remote, apiOnline, editingId, lastOp, mergeVars,
                   backupVars, utilVars, probeVars,
                   themeVars>>

\* the POST fails (network error, 405, other non-2xx): created is null
CreateFailed ==
    /\ pending["create"].stage = "sent"
    /\ notes' = CreatedNotes(notes, Null)
    /\ blob' = blob
    /\ lastOp' = Op("create", "remote-fail", TRUE,
                    pending["create"].writes, NoId, <<>>)
    /\ pending' = [pending EXCEPT !["create"] = Idle]
    /\ ops' = ops
    /\ dom' = dom
    /\ UNCHANGED <<remote, apiOnline, editingId, mergeVars,
                   backupVars, utilVars, probeVars,
                   themeVars>>

\* the POST succeeds and returns the created note as JSON
CreateReturned ==
    /\ pending["create"].stage = "sent"
    /\ remote.nextId <= MaxRemote
    /\ \E t \in NowSet, full \in BOOLEAN :
          LET created == NormalizeRecord(
                  [id |-> remote.nextId, title |-> pending["create"].title,
                   content |-> Body, createdAt |-> t, updatedAt |-> t,
                   pinned |-> FALSE], t)
              op == Op("create", "ok", FALSE,
                       pending["create"].writes, created.id, <<>>)
          IN  /\ remote' = ServerPost(remote, pending["create"].title, Body, t)
              /\ notes' = CreatedNotes(notes, created)
              /\ blob' = SaveNotes(full, notes', blob)
              /\ full => ops < MaxOps
              /\ lastOp' = IF full THEN SaveFailed(op, TRUE) ELSE op
              /\ ops' = IF full THEN ops + 1 ELSE ops
              /\ dom' = RenderedAfterSave(full, notes', dom)
    /\ pending' = [pending EXCEPT !["create"] = Idle]
    /\ UNCHANGED <<apiOnline, editingId, mergeVars,
                   backupVars, utilVars, probeVars,
                   themeVars>>

\* the POST succeeds without a JSON body: await loadNotesFromApi().  The
\* field `made` is history: the id the backend gave the new record, which
\* the app never learns.
CreateNoBody ==
    /\ pending["create"].stage = "sent"
    /\ remote.nextId <= MaxRemote
    /\ \E t \in NowSet :
          remote' = ServerPost(remote, pending["create"].title, Body, t)
    /\ pending' = [pending EXCEPT !["create"] =
                      [stage |-> "refetch", title |-> pending["create"].title,
                       writes |-> pending["create"].writes,
                       made |-> IdString(remote.nextId)]]
    /\ ops' = ops
    /\ dom' = dom
    /\ UNCHANGED <<notes, blob, apiOnline, editingId, lastOp, mergeVars,
                   backupVars, utilVars, probeVars,
                   themeVars>>

\* createNoteViaApi after the list came back: the first note with the
\* title and content is taken as the created one
CreateRefetched ==
    /\ pending["create"].stage = "refetch"
    /\ \E ok \in BOOLEAN, full \in BOOLEAN :
          LET list == LoadNotesFromApi(ok, remote, Latest)
              match == FindCreated(list, pending["create"].title, Body)
              op == IF IsNote(match)
                    THEN Op("create", "ok", FALSE,
                            pending["create"].writes, match.id, <<>>)
                    ELSE Op("create", "unconfirmed", TRUE,
                            pending["create"].writes, NoId, <<>>)
          IN  /\ notes' = CreatedNotes(notes, match)
              /\ full => IsNote(match)
              /\ blob' = IF IsNote(match)
                         THEN SaveNotes(full, notes', blob) ELSE blob
              /\ full => ops < MaxOps
              /\ lastOp' = IF full THEN SaveFailed(op, TRUE) ELSE op
              /\ ops' = IF full THEN ops + 1 ELSE ops
              /\ dom' = IF IsNote(match)
                        THEN RenderedAfterSave(full, notes', dom) ELSE dom
    /\ pending' = [pending EXCEPT !["create"] = Idle]
    /\ UNCHANGED <<remote, apiOnline, editingId, mergeVars,
                   backupVars, utilVars, probeVars,
                   themeVars>>

\* click on Edit: the modal opens for the note
EditOpen(id) ==
    /\ DomReady
    /\ ops < MaxOps
    /\ apiOnline
    /\ FindIndex(notes, id) > 0
    /\ editingId' = id
    /\ ops' = ops + 1
    /\ dom' = dom
    /\ UNCHANGED <<notes, blob, remote, apiOnline, pending, lastOp, mergeVars,
                   backupVars, utilVars, probeVars,
                   themeVars>>

\* Cancel button, backdrop click, Escape
EditCancel ==
    /\ editingId # NoId
    /\ editingId' = NoId
    /\ ops' = ops
    /\ dom' = dom
    /\ UNCHANGED <<notes, blob, remote, apiOnline, pending, lastOp, mergeVars,
                   backupVars, utilVars, probeVars,
                   themeVars>>

\* editForm submit: up to await updateNoteViaApi -> fetch(PUT)
EditSubmit(title) ==
    /\ CanStart
    /\ editingId # NoId
    /\ FindIndex(notes, editingId) > 0
    /\ pending["edit"].stage = "idle"
    /\ pending' = [pending EXCEPT !["edit"] =
                      [stage |-> "sent", id |-> editingId,
                       idx |-> FindIndex(notes, editingId),
                       title |-> title, writes |-> 1]]
    /\ ops' = ops + 1
    /\ dom' = dom
    /\ UNCHANGED <<notes, blob, remote, apiOnline, editingId, lastOp, mergeVars,
                   backupVars, utilVars, probeVars,
                   themeVars>>

\* the PUT fails (network error, 404, other non-2xx): updated is null
EditFailed ==
    /\ pending["edit"].stage = "sent"
    /\ lastOp' = Op("edit", "remote-fail", TRUE, pending["edit"].writes,
                    pending["edit"].id, <<>>)
    /\ pending' = [pending EXCEPT !["edit"] = Idle]
    /\ ops' = ops
    /\ dom' = dom
    /\ UNCHANGED <<notes, blob, remote, apiOnline, editingId, mergeVars,
                   backupVars, utilVars, probeVars,
                   themeVars>>

\* the PUT succeeds and returns the updated note as JSON
EditReturned ==
    /\ pending["edit"].stage = "sent"
    /\ ServerHas(remote, pending["edit"].id)
    /\ \E t \in NowSet, full \in BOOLEAN :
          LET p == pending["edit"]
              rem == ServerPut(remote, p.id, p.title, Body, "none", t)
              updated == NormalizeRecord(ServerRecordOf(rem, p.id), t)
              op == Op("edit", "ok", FALSE, p.writes, p.id, <<>>)
          IN  /\ remote' = rem
              /\ notes' = EditedNotes(notes, p.idx, updated)
              /\ blob' = SaveNotes(full, notes', blob)
              /\ full => ops < MaxOps
              /\ lastOp' = IF full THEN SaveFailed(op, TRUE) ELSE op
              /\ ops' = IF full THEN ops + 1 ELSE ops
              /\ dom' = RenderedAfterSave(full, notes', dom)
              /\ editingId' = IF full THEN editingId ELSE NoId
    /\ pending' = [pending EXCEPT !["edit"] = Idle]
    /\ UNCHANGED <<apiOnline, mergeVars,
                   backupVars, utilVars, probeVars,
                   themeVars>>

\* the PUT succeeds without a JSON body: await loadNotesFromApi()
EditNoBody ==
    /\ pending["edit"].stage = "sent"
    /\ ServerHas(remote, pending["edit"].id)
    /\ \E t \in NowSet :
          remote' = ServerPut(remote, pending["edit"].id,
                              pending["edit"].title, Body, "none", t)
    /\ pending' = [pending EXCEPT !["edit"].stage = "refetch"]
    /\ ops' = ops
    /\ dom' = dom
    /\ UNCHANGED <<notes, blob, apiOnline, editingId, lastOp, mergeVars,
                   backupVars, utilVars, probeVars,
                   themeVars>>

\* updateNoteViaApi after the list came back, then the rest of the handler
EditRefetched ==
    /\ pending["edit"].stage = "refetch"
    /\ \E ok \in BOOLEAN, now \in NowSet, full \in BOOLEAN :
          LET p == pending["edit"]
              list == LoadNotesFromApi(ok, remote, now)
              found == FindUpdated(list, p.id)
              updated == IF IsNote(found) THEN found
                         ELSE EmptyUpdate(p.id, p.title, Body, "none", now)
              op == Op("edit", "ok", FALSE, p.writes, p.id, <<>>)
          IN  /\ notes' = EditedNotes(notes, p.idx, updated)
              /\ blob' = SaveNotes(full, notes', blob)
              /\ full => ops < MaxOps
              /\ lastOp' = IF full THEN SaveFailed(op, TRUE) ELSE op
              /\ ops' = IF full THEN ops + 1 ELSE ops
              /\ dom' = RenderedAfterSave(full, notes', dom)
              /\ editingId' = IF full THEN editingId ELSE NoId
    /\ pending' = [pending EXCEPT !["edit"] = Idle]
    /\ UNCHANGED <<remote, apiOnline, mergeVars,
                   backupVars, utilVars, probeVars,
                   themeVars>>

\* click on Pin/Unpin: up to await updateNoteViaApi -> fetch(PUT)
PinStart(id) ==
    /\ DomReady
    /\ CanStart
    /\ apiOnline
    /\ FindIndex(notes, id) > 0
    /\ pending["pin"].stage = "idle"
    /\ LET i == FindIndex(notes, id) IN
       pending' = [pending EXCEPT !["pin"] =
                      [stage |-> "sent", id |-> id, i |-> i,
                       current |-> notes[i],
                       pin |-> IF notes[i].pinned THEN "false" ELSE "true",
                       writes |-> 1]]
    /\ ops' = ops + 1
    /\ dom' = dom
    /\ UNCHANGED <<notes, blob, remote, apiOnline, editingId, lastOp,
                   mergeVars, backupVars, utilVars, probeVars,
                   themeVars>>

\* the PUT fails: updated is null
PinFailed ==
    /\ pending["pin"].stage = "sent"
    /\ lastOp' = Op("pin", "remote-fail", TRUE, pending["pin"].writes,
                    pending["pin"].id, <<>>)
    /\ pending' = [pending EXCEPT !["pin"] = Idle]
    /\ ops' = ops
    /\ dom' = dom
    /\ UNCHANGED <<notes, blob, remote, apiOnline, editingId, mergeVars,
                   backupVars, utilVars, probeVars,
                   themeVars>>

\* the PUT succeeds and returns the updated note as JSON
PinReturned ==
    /\ pending["pin"].stage = "sent"
    /\ ServerHas(remote, pending["pin"].id)
    /\ \E t \in NowSet, full \in BOOLEAN :
          LET p == pending["pin"]
              rem == ServerPut(remote, p.id, p.current.title,
                               p.current.content, p.pin, t)
              updated == NormalizeRecord(ServerRecordOf(rem, p.id), t)
              op == Op("pin", "ok", FALSE, p.writes, p.id, <<>>)
          IN  /\ remote' = rem
              /\ notes' = PinnedNotes(notes, p.i, p.current, updated)
              /\ blob' = SaveNotes(full, notes', blob)
              /\ full => ops < MaxOps
              /\ lastOp' = IF full THEN SaveFailed(op, TRUE) ELSE op
              /\ ops' = IF full THEN ops + 1 ELSE ops
              /\ dom' = RenderedAfterSave(full, notes', dom)
    /\ pending' = [pending EXCEPT !["pin"] = Idle]
    /\ UNCHANGED <<apiOnline, editingId, mergeVars, backupVars, utilVars, probeVars,
                   themeVars>>

\* the PUT succeeds without a JSON body: await loadNotesFromApi()
PinNoBody ==
    /\ pending["pin"].stage = "sent"
    /\ ServerHas(remote, pending["pin"].id)
    /\ \E t \in NowSet :
          remote' = ServerPut(remote, pending["pin"].id,
                              pending["pin"].current.title,
                              pending["pin"].current.content,
                              pending["pin"].pin, t)
    /\ pending' = [pending EXCEPT !["pin"].stage = "refetch"]
    /\ ops' = ops
    /\ dom' = dom
    /\ UNCHANGED <<notes, blob, apiOnline, editingId, lastOp, mergeVars,
                   backupVars, utilVars, probeVars,
                   themeVars>>

\* updateNoteViaApi after the list came back, then the rest of the handler
PinRefetched ==
    /\ pending["pin"].stage = "refetch"
    /\ \E ok \in BOOLEAN, now \in NowSet, full \in BOOLEAN :
          LET p == pending["pin"]
              list == LoadNotesFromApi(ok, remote, now)
              found == FindUpdated(list, p.id)
              updated == IF IsNote(found) THEN found
                         ELSE EmptyUpdate(p.id, p.current.title,
                                          p.current.content, p.pin, now)
              op == Op("pin", "ok", FALSE, p.writes, p.id, <<>>)
          IN  /\ notes' = PinnedNotes(notes, p.i, p.current, updated)
              /\ blob' = SaveNotes(full, notes', blob)
              /\ full => ops < MaxOps
              /\ lastOp' = IF full THEN SaveFailed(op, TRUE) ELSE op
              /\ ops' = IF full THEN ops + 1 ELSE ops
              /\ dom' = RenderedAfterSave(full, notes', dom)
    /\ pending' = [pending EXCEPT !["pin"] = Idle]
    /\ UNCHANGED <<remote, apiOnline, editingId, mergeVars, backupVars,
                   utilVars, probeVars,
                   themeVars>>

\* click on Delete: up to await confirmDialog(...)
DeleteStart(id) ==
    /\ DomReady
    /\ CanStart
    /\ apiOnline
    /\ id \in NoteIds(notes)
    /\ pending["delete"].stage = "idle"
    /\ pending' = [pending EXCEPT !["delete"] =
                      [stage |-> "dialog", id |-> id, writes |-> 0]]
    /\ ops' = ops + 1
    /\ dom' = dom
    /\ UNCHANGED <<notes, blob, remote, apiOnline, editingId, lastOp,
                   mergeVars, backupVars, utilVars, probeVars,
                   themeVars>>

\* the dialog is dismissed: if (!ok) return
DeleteCancel ==
    /\ pending["delete"].stage = "dialog"
    /\ lastOp' = Op("delete", "cancelled", FALSE, pending["delete"].writes,
                    pending["delete"].id, <<>>)
    /\ pending' = [pending EXCEPT !["delete"] = Idle]
    /\ ops' = ops
    /\ dom' = dom
    /\ UNCHANGED <<notes, blob, remote, apiOnline, editingId, mergeVars,
                   backupVars, utilVars, probeVars,
                   themeVars>>

\* the dialog is confirmed: up to await deleteNoteViaApi -> fetch(DELETE)
DeleteConfirm ==
    /\ pending["delete"].stage = "dialog"
    /\ pending' = [pending EXCEPT !["delete"].stage = "sent",
                                  !["delete"].writes = @ + 1]
    /\ ops' = ops
    /\ dom' = dom
    /\ UNCHANGED <<notes, blob, remote, apiOnline, editingId, lastOp,
                   mergeVars, backupVars, utilVars, probeVars,
                   themeVars>>

\* the DELETE fails (network error, status other than 200/204)
DeleteFailed ==
    /\ pending["delete"].stage = "sent"
    /\ lastOp' = Op("delete", "remote-fail", TRUE, pending["delete"].writes,
                    pending["delete"].id, <<>>)
    /\ pending' = [pending EXCEPT !["delete"] = Idle]
    /\ ops' = ops
    /\ dom' = dom
    /\ UNCHANGED <<notes, blob, remote, apiOnline, editingId, mergeVars,
                   backupVars, utilVars, probeVars,
                   themeVars>>

\* the DELETE answers 200 or 204
DeleteDone ==
    /\ pending["delete"].stage = "sent"
    /\ remote' = ServerDelete(remote, pending["delete"].id)
    /\ notes' = DeletedNotes(notes, pending["delete"].id)
    /\ \E full \in BOOLEAN :
          LET op == Op("delete", "ok", FALSE, pending["delete"].writes,
                       pending["delete"].id, <<>>)
          IN  /\ blob' = SaveNotes(full, notes', blob)
              /\ full => ops < MaxOps
              /\ lastOp' = IF full THEN SaveFailed(op, TRUE) ELSE op
              /\ ops' = IF full THEN ops + 1 ELSE ops
              /\ dom' = RenderedAfterSave(full, notes', dom)
    /\ pending' = [pending EXCEPT !["delete"] = Idle]
    /\ UNCHANGED <<apiOnline, editingId, mergeVars, backupVars, utilVars, probeVars,
                   themeVars>>

\* the files the user picks for an import
RawNote(id, title) ==
    [id |-> JsStr(id), title |-> JsStr(title), content |-> JsStr(Body),
     createdAt |-> JsNum(1), updatedAt |-> JsNum(1), pinned |-> JsBool(FALSE)]

BackupFile(raws) ==
    [kind |-> "object", app |-> "mini-notes", version |-> EXPORT_VERSION,
     exportedAt |-> 1, notesIsArray |-> TRUE, notes |-> raws]

ImportFiles ==
    {BackupFile(<<RawNote("L", "a")>>),
     BackupFile(<<RawNote("1", "a"), RawNote("1", "b")>>),
     BackupFile(<<[RawNote("L", "a") EXCEPT !.pinned = JsUndef]>>),
     [kind |-> "invalid", app |-> "", version |-> Absent, exportedAt |-> 0,
      notesIsArray |-> FALSE, notes |-> <<>>]}

\* importInput change: parseImportedFile reports an error
ImportRejected(file) ==
    /\ DomReady
    /\ pending["import"].stage = "idle"
    /\ ParseImportedFile(file).error # ""
    /\ lastOp' = Op("import", "rejected", TRUE, 0, NoId, <<>>)
    /\ ops' = ops
    /\ dom' = dom
    /\ UNCHANGED <<notes, blob, remote, apiOnline, editingId, pending,
                   mergeVars, backupVars, utilVars, probeVars,
                   themeVars>>

\* importInput change: the file holds notes, up to await confirmDialog(...)
ImportParsed(file) ==
    /\ DomReady
    /\ CanStart
    /\ pending["import"].stage = "idle"
    /\ ParseImportedFile(file).error = ""
    /\ pending' = [pending EXCEPT !["import"] =
                      [stage |-> "dialog",
                       incoming |-> PlainNotes(ParseImportedFile(file).notes)]]
    /\ ops' = ops + 1
    /\ dom' = dom
    /\ UNCHANGED <<notes, blob, remote, apiOnline, editingId, lastOp,
                   mergeVars, backupVars, utilVars, probeVars,
                   themeVars>>

\* the dialog is answered; mergeNotes throws on an empty slot of `notes`
\* (for (const n of existing) map.set(n.id, n)) and the handler ends there;
\* it has no catch block, so nothing is shown when saveNotes throws
ImportConfirm(replace) ==
    /\ pending["import"].stage = "dialog"
    /\ IF ~replace /\ Solid(notes) # 1..Len(notes)
       THEN /\ lastOp' = Op("import", "threw", FALSE, 0, NoId, <<>>)
            /\ dom' = dom
            /\ UNCHANGED <<notes, blob, ops>>
       ELSE \E full \in BOOLEAN :
            LET op == Op("import", IF replace THEN "replaced" ELSE "merged",
                         FALSE, 0, NoId, pending["import"].incoming)
            IN  /\ notes' = ImportedNotes(notes, pending["import"].incoming,
                                          replace)
                /\ blob' = SaveNotes(full, notes', blob)
                /\ full => ops < MaxOps
                /\ lastOp' = IF full THEN SaveFailed(op, FALSE) ELSE op
                /\ ops' = IF full THEN ops + 1 ELSE ops
                /\ dom' = RenderedAfterSave(full, notes', dom)
    /\ pending' = [pending EXCEPT !["import"] = Idle]
    /\ UNCHANGED <<remote, apiOnline, editingId, mergeVars, backupVars,
                   utilVars, probeVars,
                   themeVars>>

\* startApiHealthIndicator: pingApi() up to await fetch
ProbeStart ==
    /\ DomReady
    /\ ops < MaxOps
    /\ pending["probe"].stage = "idle"
    /\ pending' = [pending EXCEPT !["probe"] = [stage |-> "sent"]]
    /\ ops' = ops + 1
    /\ dom' = dom
    /\ UNCHANGED <<notes, blob, remote, apiOnline, editingId, lastOp,
                   mergeVars, backupVars, utilVars, probeVars,
                   themeVars>>

\* a bug: the probe takes the list its GET /api/notes returned as the
\* collection, as a refresh does
ProbeDoneAdopting(ok) ==
    /\ pending["probe"].stage = "sent"
    /\ apiOnline' = ok
    /\ notes' = IF ok THEN LoadNotesFromApi(TRUE, remote, Latest) ELSE notes
    /\ blob' = StoredArray(notes')
    /\ pending' = [pending EXCEPT !["probe"] = Idle]
    /\ ops' = ops
    /\ dom' = dom
    /\ UNCHANGED <<remote, editingId, lastOp, mergeVars, backupVars,
                   utilVars, probeVars,
                   themeVars>>

\* setState(ok): apiOnline = ok
ProbeDone(ok) ==
    /\ pending["probe"].stage = "sent"
    /\ apiOnline' = ok
    /\ pending' = [pending EXCEPT !["probe"] = Idle]
    /\ ops' = ops
    /\ dom' = dom
    /\ UNCHANGED <<notes, blob, remote, editingId, lastOp, mergeVars,
                   backupVars, utilVars, probeVars,
                   themeVars>>

(***************************************************************************)
(* The app before and at page load                                         *)
(***************************************************************************)
NoHandler == [k \in Handlers |-> IF k = "hydrate" THEN [stage |-> "init"]
                                 ELSE Idle]

NoBackend == [items |-> <<>>, nextId |-> 1]

\* the page as the markup gives it: an empty list, the Export button
\* without the disabled attribute
PageLoaded == [loading |-> FALSE, exportDisabled |-> FALSE]

\* largest number of pingApi() calls in flight
MaxProbes == 3

\* the places of the list of pingApi() calls in flight
ProbeSlots == 1..MaxProbes

\* no pingApi() call in flight, the backend answers
ProbeIdle ==
    /\ probes = <<>>
    /\ reachable = TRUE

\* no explicit choice is stored and initThemeController has not run
NoTheme == ""

NoThemeOp == [kind |-> "none", was |-> NoTheme, prev |-> "none",
              wasBefore |-> NoTheme]

ThemeIdle ==
    /\ themeChoice = NoTheme /\ dataTheme = NoTheme /\ prefersDark = FALSE
    /\ themePc = "load" /\ themeOp = NoThemeOp

\* the notes app before it is loaded
NotesIdle ==
    /\ notes = <<>> /\ blob = MissingBlob /\ remote = NoBackend
    /\ apiOnline = TRUE /\ editingId = NoId /\ pending = NoHandler
    /\ lastOp = NoOp
    /\ ops = 0
    /\ dom = PageLoaded
    /\ ProbeIdle

\* the app before it is loaded (the state of the other specifications)
AppIdle == NotesIdle /\ ThemeIdle

(***************************************************************************)
(* utils.js: strings are sequences of characters                           *)
(***************************************************************************)
LowerLetters == {"a", "b", "c", "w", "x"}
UpperLetters == {"A", "B", "C", "W", "X"}
Digits == {"0", "1", "2"}
Spaces == {" "}

\* String.prototype.toLowerCase, one character
LowerChar(c) ==
    CASE c = "A" -> "a" [] c = "B" -> "b" [] c = "C" -> "c"
      [] c = "W" -> "w" [] c = "X" -> "x" [] OTHER -> c

ToLowerCase(s) == [i \in 1..Len(s) |-> LowerChar(s[i])]

\* \w, which decides \b
IsWordChar(c) == c \in LowerLetters \cup UpperLetters \cup Digits \cup {"_"}

\* [a-z0-9_-] under the flag i
IsTagChar(c) == IsWordChar(c) \/ c = "-"

\* [\s.,;:!?([{\-], the character in front of '#' in extractTags
TagLeadChars == Spaces \cup {".", ",", ";", ":", "!", "?", "(", "[", "{", "-"}

\* [\s], the character in front of '#' in parseQuery
QueryLeadChars == Spaces

\* {2,24}
TAG_MIN == 2
TAG_MAX == 24

\* \b between s[j] and s[j+1] (outside of the string counts as non-word)
WordBoundaryAt(s, j) ==
    (j >= 1 /\ j <= Len(s) /\ IsWordChar(s[j]))
        # (j + 1 >= 1 /\ j + 1 <= Len(s) /\ IsWordChar(s[j + 1]))

\* the greedy [a-z0-9_-]{2,24} after the '#' at place h: the number of tag
\* characters it takes at most
RECURSIVE BodyRun(_, _, _)
BodyRun(s, h, k) ==
    IF k < TAG_MAX /\ h + k + 1 <= Len(s) /\ IsTagChar(s[h + k + 1])
    THEN BodyRun(s, h, k + 1)
    ELSE k

\* ...\b: the quantifier gives characters back until \b holds; 0 when no
\* length from TAG_MIN on does
RECURSIVE BodyBack(_, _, _)
BodyBack(s, h, k) ==
    IF k < TAG_MIN THEN 0
    ELSE IF WordBoundaryAt(s, h + k) THEN k
    ELSE BodyBack(s, h, k - 1)

BodyLen(s, h) == BodyBack(s, h, BodyRun(s, h, 0))

NoMatch == [hash |-> 0, len |-> 0]

\* one attempt of /(^|[lead])#([a-z0-9_-]{2,24})\b/ at place i: the place
\* of '#' and the length of the tag, NoMatch when the attempt fails
MatchAt(s, i, lead) ==
    IF i = 1 /\ s[1] = "#" /\ BodyLen(s, 1) > 0
    THEN [hash |-> 1, len |-> BodyLen(s, 1)]
    ELSE IF /\ s[i] \in lead
            /\ i + 1 <= Len(s)
            /\ s[i + 1] = "#"
            /\ BodyLen(s, i + 1) > 0
         THEN [hash |-> i + 1, len |-> BodyLen(s, i + 1)]
         ELSE NoMatch

SubSeqOf(s, a, b) == [i \in 1..(b - a + 1) |-> s[a + i - 1]]

\* m[2].toLowerCase()
TagOf(s, m) == ToLowerCase(SubSeqOf(s, m.hash + 1, m.hash + m.len))

\* Set.prototype.add: the values in insertion order
SetAdd(set, x) == IF x \in Range(set) THEN set ELSE Append(set, x)

\* while ((m = re.exec(text))) set.add(m[2].toLowerCase()), from place i
RECURSIVE ExecLoop(_, _, _)
ExecLoop(s, i, set) ==
    IF i > Len(s) THEN set
    ELSE LET m == MatchAt(s, i, TagLeadChars) IN
         IF m = NoMatch THEN ExecLoop(s, i + 1, set)
         ELSE ExecLoop(s, m.hash + m.len + 1, SetAdd(set, TagOf(s, m)))

\* parts.filter(Boolean).join(' ')
RECURSIVE JoinParts(_)
JoinParts(parts) ==
    IF parts = <<>> THEN <<>>
    ELSE IF Head(parts) = <<>> THEN JoinParts(Tail(parts))
    ELSE IF JoinParts(Tail(parts)) = <<>> THEN Head(parts)
    ELSE Head(parts) \o <<" ">> \o JoinParts(Tail(parts))

\* extractTags(...parts)
ExtractTags(parts) == ExecLoop(JoinParts(parts), 1, <<>>)

\* String.prototype.trim
RECURSIVE TrimStart(_)
TrimStart(s) ==
    IF s # <<>> /\ Head(s) \in Spaces THEN TrimStart(Tail(s)) ELSE s

RECURSIVE TrimEnd(_)
TrimEnd(s) ==
    IF s # <<>> /\ s[Len(s)] \in Spaces
    THEN TrimEnd(SubSeqOf(s, 1, Len(s) - 1))
    ELSE s

Trim(s) == TrimEnd(TrimStart(s))

\* a bug: the whitespace in front of a tag is removed with the tag
RECURSIVE ReplaceLoopDropLead(_, _, _)
ReplaceLoopDropLead(s, i, acc) ==
    IF i > Len(s) THEN acc
    ELSE LET m == MatchAt(s, i, QueryLeadChars) IN
         IF m = NoMatch
         THEN ReplaceLoopDropLead(s, i + 1,
                                  [acc EXCEPT !.text = Append(@, s[i])])
         ELSE ReplaceLoopDropLead(s, m.hash + m.len + 1,
                                  [text |-> acc.text,
                                   tags |-> Append(acc.tags, TagOf(s, m))])

\* q.replace(/(^|[\s])#([a-z0-9_-]{2,24})\b/gi, (_, s, tag) => {
\*   tags.push(tag.toLowerCase()); return s; }), from place i
RECURSIVE ReplaceLoop(_, _, _)
ReplaceLoop(s, i, acc) ==
    IF i > Len(s) THEN acc
    ELSE LET m == MatchAt(s, i, QueryLeadChars) IN
         IF m = NoMatch
         THEN ReplaceLoop(s, i + 1,
                          [acc EXCEPT !.text = Append(@, s[i])])
         ELSE ReplaceLoop(s, m.hash + m.len + 1,
                          [text |-> acc.text \o SubSeqOf(s, i, m.hash - 1),
                           tags |-> Append(acc.tags, TagOf(s, m))])

\* a bug: parseQuery removing the whitespace in front of a tag
ParseQueryDropLead(q) ==
    IF Trim(q) = <<>> THEN [text |-> <<>>, tags |-> <<>>]
    ELSE LET r == ReplaceLoopDropLead(Trim(q), 1,
                                      [text |-> <<>>, tags |-> <<>>])
         IN  [text |-> Trim(r.text), tags |-> r.tags]

\* a bug: parseQuery without trimming the query
ParseQueryNoTrim(q) ==
    IF q = <<>> THEN [text |-> <<>>, tags |-> <<>>]
    ELSE LET r == ReplaceLoop(q, 1, [text |-> <<>>, tags |-> <<>>])
         IN  [text |-> r.text, tags |-> r.tags]

\* parseQuery(q)
ParseQuery(q) ==
    IF Trim(q) = <<>> THEN [text |-> <<>>, tags |-> <<>>]
    ELSE LET r == ReplaceLoop(Trim(q), 1, [text |-> <<>>, tags |-> <<>>])
         IN  [text |-> Trim(r.text), tags |-> r.tags]

\* String.prototype.includes
Includes(hay, needle) ==
    \E a \in 1..(Len(hay) + 1) :
        /\ a + Len(needle) - 1 <= Len(hay)
        /\ \A k \in 1..Len(needle) : hay[a + k - 1] = needle[k]

\* a bug: one queried tag in the note is enough
MatchesQueryAnyTag(n, q) ==
    LET p == ParseQuery(q)
        noteTags == ExtractTags(<<n.title, n.content>>)
    IN  IF p.tags # <<>> /\ \A t \in Range(p.tags) : t \notin Range(noteTags)
        THEN FALSE
        ELSE IF p.text # <<>>
             THEN \/ Includes(ToLowerCase(n.title), ToLowerCase(p.text))
                  \/ Includes(ToLowerCase(n.content), ToLowerCase(p.text))
             ELSE TRUE

\* a bug: the free text is looked for in the title only
MatchesQueryTitleOnly(n, q) ==
    LET p == ParseQuery(q)
        noteTags == ExtractTags(<<n.title, n.content>>)
    IN  IF p.tags # <<>> /\ \E t \in Range(p.tags) : t \notin Range(noteTags)
        THEN FALSE
        ELSE IF p.text # <<>>
             THEN Includes(ToLowerCase(n.title), ToLowerCase(p.text))
             ELSE TRUE

\* matchesQuery(n, q)
MatchesQuery(n, q) ==
    LET p == ParseQuery(q)
        noteTags == ExtractTags(<<n.title, n.content>>)
    IN  IF p.tags # <<>> /\ \E t \in Range(p.tags) : t \notin Range(noteTags)
        THEN FALSE
        ELSE IF p.text # <<>>
             THEN \/ Includes(ToLowerCase(n.title), ToLowerCase(p.text))
                  \/ Includes(ToLowerCase(n.content), ToLowerCase(p.text))
             ELSE TRUE

(***************************************************************************)
(* SpecBackup: export an array, read the file back, merge into []          *)
(***************************************************************************)
RawNoteSet ==
    {[id |-> i, title |-> JsStr("t"), content |-> JsStr("x"),
      createdAt |-> JsNum(1), updatedAt |-> u, pinned |-> p] :
        i \in {JsStr("a"), JsStr("b"), JsNum(1)},
        u \in {JsNum(1), JsNum(2), JsNaN},
        p \in {JsBool(TRUE), JsBool(FALSE), JsUndef}}

NoFile == [kind |-> "none", app |-> "", version |-> Absent,
           exportedAt |-> 0, notesIsArray |-> FALSE, notes |-> <<>>]

NoParse == [notes |-> <<>>, version |-> Absent, error |-> "not parsed"]

ExportTimes == {1, 2}

MergeIdle ==
    /\ mBase = <<>> /\ mIncoming = <<>> /\ mResult = <<>> /\ mDone = FALSE

UtilIdle == uIn = <<>> /\ uOut = <<>> /\ uPc = "start"

InitBackup ==
    /\ AppIdle
    /\ UtilIdle
    /\ MergeIdle
    /\ bNotes \in UNION {[1..k -> RawNoteSet] : k \in 0..MaxExport}
    /\ bFile = NoFile
    /\ bParsed = NoParse
    /\ bMerged = <<>>
    /\ bPc = "start"

\* exportNotes(notes)
Export ==
    /\ bPc = "start"
    /\ \E t \in ExportTimes : bFile' = ExportDocument(bNotes, t)
    /\ bPc' = "exported"
    /\ UNCHANGED <<bNotes, bParsed, bMerged, mergeVars, appVars, utilVars>>

\* parseImportedFile(file) on the exported file
ParseFile ==
    /\ bPc = "exported"
    /\ bParsed' = ParseImportedFile(bFile)
    /\ bPc' = "parsed"
    /\ UNCHANGED <<bNotes, bFile, bMerged, mergeVars, appVars, utilVars>>

\* mergeNotes(parsed notes, [])
MergeParsed ==
    /\ bPc = "parsed"
    /\ bMerged' = MergeNotes(PlainNotes(bParsed.notes), <<>>)
    /\ bPc' = "merged"
    /\ UNCHANGED <<bNotes, bFile, bParsed, mergeVars, appVars, utilVars>>

NextBackup == Export \/ ParseFile \/ MergeParsed

SpecBackup == InitBackup /\ [][NextBackup]_vars

(***************************************************************************)
(* SpecImport: a chosen file is parsed, then rejected, or its notes        *)
(* replace the collection or are merged into it                            *)
(***************************************************************************)
\* a schema-valid object of a file
GoodObject(id, updatedAt) ==
    [id |-> JsStr(id), title |-> JsStr("t"), content |-> JsStr("x"),
     createdAt |-> JsNum(1), updatedAt |-> JsNum(updatedAt),
     pinned |-> JsBool(FALSE)]

\* the objects of the files: two valid ones, {} and objects with one
\* property of another type (a number out of the double range, as 1e999,
\* is read as Infinity)
CandidateSet ==
    {GoodObject("a", 1), GoodObject("b", 2),
     [f \in NoteFields |-> JsUndef],
     [GoodObject("a", 1) EXCEPT !.id = JsNum(1)],
     [GoodObject("a", 1) EXCEPT !.title = JsNull],
     [GoodObject("a", 1) EXCEPT !.content = JsUndef],
     [GoodObject("a", 1) EXCEPT !.pinned = JsUndef],
     [GoodObject("a", 1) EXCEPT !.pinned = JsNum(1)],
     [GoodObject("a", 1) EXCEPT !.createdAt = JsStr("1")],
     [GoodObject("a", 1) EXCEPT !.createdAt = JsNaN],
     [GoodObject("a", 1) EXCEPT !.updatedAt = JsNull]}

\* the files: { app, version, exportedAt, notes: [...] }, a bare array,
\* an object without a notes array, a text that is not JSON
ChosenFileSet ==
    {[kind |-> k, app |-> "mini-notes", version |-> EXPORT_VERSION,
      exportedAt |-> 1, notesIsArray |-> TRUE, notes |-> ns] :
         k \in {"object", "array"},
         ns \in UNION {[1..n -> CandidateSet] : n \in 0..MaxFile}}
    \cup {[kind |-> "object", app |-> "", version |-> Absent,
           exportedAt |-> 0, notesIsArray |-> FALSE, notes |-> <<>>],
          [kind |-> "invalid", app |-> "", version |-> Absent,
           exportedAt |-> 0, notesIsArray |-> FALSE, notes |-> <<>>]}

\* the collection the import meets
ExistingSet == {<<>>, <<Note("a", "old", "x", 1, 1, TRUE)>>}

InitImport ==
    /\ AppIdle
    /\ UtilIdle
    /\ MergeIdle
    /\ bNotes \in ExistingSet
    /\ bFile \in ChosenFileSet
    /\ bParsed = NoParse
    /\ bMerged = bNotes
    /\ bPc = "chosen"

\* importInput change: await parseImportedFile(file)
ParseChosen ==
    /\ bPc = "chosen"
    /\ bParsed' = ParseImportedFile(bFile)
    /\ bPc' = "read"
    /\ UNCHANGED <<bNotes, bFile, bMerged, mergeVars, appVars, utilVars>>

\* if (error) { alert(error); return; }
RejectChosen ==
    /\ bPc = "read"
    /\ bParsed.error # ""
    /\ bPc' = "rejected"
    /\ UNCHANGED <<bNotes, bFile, bParsed, bMerged, mergeVars, appVars,
                   utilVars>>

\* notes = replace ? incoming : mergeNotes(notes, incoming)
ImportChosen(replace) ==
    /\ bPc = "read"
    /\ bParsed.error = ""
    /\ bMerged' = ImportedNotes(bNotes, PlainNotes(bParsed.notes), replace)
    /\ bPc' = IF replace THEN "replaced" ELSE "merged-in"
    /\ UNCHANGED <<bNotes, bFile, bParsed, mergeVars, appVars, utilVars>>

NextImport ==
    \/ ParseChosen
    \/ RejectChosen
    \/ \E replace \in BOOLEAN : ImportChosen(replace)

SpecImport == InitImport /\ [][NextImport]_vars

(***************************************************************************)
(* SpecMerge: mergeNotes applied to every pair of bounded arrays           *)
(***************************************************************************)
MergeIds == {"a", "b"}
MergeStamps == {Absent} \cup (0..MaxTs)

\* the notes of `existing` carry the title "t", those of `incoming` the
\* title "u": the title tells which argument a returned note came from
BaseNoteSet ==
    {Note(id, "t", "x", 0, u, FALSE) : id \in MergeIds, u \in MergeStamps}

IncomingNoteSet ==
    {Note(id, "u", "x", 0, u, FALSE) : id \in MergeIds, u \in MergeStamps}

SeqsUpTo(S, n) == UNION {[1..k -> S] : k \in 0..n}

BackupIdle ==
    /\ bNotes = <<>> /\ bFile = NoFile /\ bParsed = NoParse
    /\ bMerged = <<>> /\ bPc = "start"

InitMerge ==
    /\ AppIdle
    /\ UtilIdle
    /\ BackupIdle
    /\ mBase \in SeqsUpTo(BaseNoteSet, MaxLen)
    /\ mIncoming \in SeqsUpTo(IncomingNoteSet, MaxLen)
    /\ mResult = <<>>
    /\ mDone = FALSE

\* a bug: the merged notes are written back into `existing`
CallMergeInPlace ==
    /\ ~mDone
    /\ mResult' = MergeNotes(mBase, mIncoming)
    /\ mBase' = mResult'
    /\ mDone' = TRUE
    /\ UNCHANGED <<mIncoming, backupVars, appVars, utilVars>>

\* mergeNotes(existing, incoming)
CallMerge ==
    /\ ~mDone
    /\ mResult' = MergeNotes(mBase, mIncoming)
    /\ mDone' = TRUE
    /\ UNCHANGED <<mBase, mIncoming, backupVars, appVars, utilVars>>

\* mergeNotes(X, X): the same array as both arguments
CallMergeSelf ==
    /\ ~mDone
    /\ mIncoming' = mBase
    /\ mResult' = MergeNotes(mBase, mBase)
    /\ mDone' = TRUE
    /\ UNCHANGED <<mBase, backupVars, appVars, utilVars>>

NextMerge == CallMerge \/ CallMergeSelf

SpecMerge == InitMerge /\ [][NextMerge]_vars

(***************************************************************************)
(* SpecTags: extractTags and parseQuery applied to bounded strings         *)
(***************************************************************************)
TagAlphabet == {"#", "a", "B", "-", "_", " ", ")"}

ShortTexts == UNION {[1..n -> TagAlphabet] : n \in 0..MaxText}

\* two tokens and what stands between them
TokenSet ==
    {<<"#", "a", "b">>, <<"#", "A", "B">>, <<"#", "a">>, <<"a", "b">>,
     <<"#", "a", "-">>, <<"#", "a", "b", "-">>, <<"#", "1", "_">>}

Separators == {<<>>, <<" ">>, <<")">>, <<".">>, <<"-">>, <<" ", " ">>}

TokenTexts ==
    {t1 \o sep \o t2 : t1 \in TokenSet, sep \in Separators, t2 \in TokenSet}

\* '#' and k tag characters, the h-th of them '-' (none when h = 0)
LongRun(k, h) ==
    <<"#">> \o [i \in 1..k |-> IF i = h THEN "-" ELSE "a"]

LongTexts ==
    {pre \o LongRun(k, h) \o post :
        pre \in {<<>>, <<"x", " ">>},
        k \in (TAG_MAX - 1)..(TAG_MAX + 2),
        h \in {0, TAG_MAX - 1, TAG_MAX, TAG_MAX + 1},
        post \in {<<>>, <<" ", "#", "a", "b">>}}

\* a tag between two pieces of free text
QueryTexts ==
    {w1 \o g \o w2 :
        w1 \in {<<>>, <<"a">>, <<"a", " ">>},
        g \in {<<" ", "#", "a", "b">>, <<"#", "a", "B">>, <<"#", "a", "-">>,
               <<" ", "#", "a", "b", "-">>},
        w2 \in {<<>>, <<"x">>, <<" ", "x">>, <<" ", "#", "A", "B">>}}

TextSet == ShortTexts \cup TokenTexts \cup LongTexts \cup QueryTexts

InitTags ==
    /\ AppIdle
    /\ MergeIdle
    /\ BackupIdle
    /\ uIn \in {[text |-> s] : s \in TextSet}
    /\ uOut = <<>>
    /\ uPc = "start"

\* extractTags(text)
CallExtractTags ==
    /\ uPc = "start"
    /\ uOut' = [tags |-> ExtractTags(<<uIn.text>>)]
    /\ uPc' = "extracted"
    /\ UNCHANGED <<uIn, appVars, mergeVars, backupVars>>

\* parseQuery(text)
CallParseQuery ==
    /\ uPc = "start"
    /\ uOut' = ParseQuery(uIn.text)
    /\ uPc' = "parsed"
    /\ UNCHANGED <<uIn, appVars, mergeVars, backupVars>>

NextTags == CallExtractTags \/ CallParseQuery

SpecTags == InitTags /\ [][NextTags]_vars

(***************************************************************************)
(* SpecQuery: matchesQuery applied to a note and a query                   *)
(***************************************************************************)
\* titles and contents of the notes
NoteTextSet ==
    {<<>>, <<"a", "B">>, <<"#", "a", "B">>, <<"#", "a", "_">>,
     <<"a", " ", "#", "a", "b">>, <<"x", "#", "a", "b">>}

ShortQueries == UNION {[1..n -> TagAlphabet] : n \in 0..MaxQuery}

\* free text followed by up to two tags
QueryTagSet ==
    {<<>>, <<"#", "A", "B", " ">>, <<"#", "a", "_", " ">>,
     <<"#", "c", "w", " ">>}

TaggedQueries ==
    {tx \o g1 \o g2 :
        tx \in {<<>>, <<"a", " ">>, <<"B", " ">>, <<"x", "#", "a", " ">>},
        g1 \in QueryTagSet, g2 \in QueryTagSet}

QuerySet == ShortQueries \cup TaggedQueries

InitQuery ==
    /\ AppIdle
    /\ MergeIdle
    /\ BackupIdle
    /\ uIn \in {[note |-> [title |-> t, content |-> c], q |-> q] :
                   t \in NoteTextSet, c \in NoteTextSet, q \in QuerySet}
    /\ uOut = <<>>
    /\ uPc = "start"

\* matchesQuery(n, q)
CallMatchesQuery ==
    /\ uPc = "start"
    /\ uOut' = [match |-> MatchesQuery(uIn.note, uIn.q)]
    /\ uPc' = "matched"
    /\ UNCHANGED <<uIn, appVars, mergeVars, backupVars>>

NextQuery == CallMatchesQuery

SpecQuery == InitQuery /\ [][NextQuery]_vars

(***************************************************************************)
(* utils.js byPinnedThenUpdated and app.js render: the list that is shown  *)
(***************************************************************************)
\* n.updatedAt ?? 0
UpdatedOrZero(n) == IF n.updatedAt = Absent THEN 0 ELSE n.updatedAt

\* byPinnedThenUpdated(a, b)
ByPinnedThenUpdated(a, b) ==
    IF a.pinned # b.pinned
    THEN (IF a.pinned THEN -1 ELSE 1)
    ELSE UpdatedOrZero(b) - UpdatedOrZero(a)

\* Array.prototype.sort is stable: x, which comes later in the array, goes
\* behind every element that does not compare greater than it
RECURSIVE InsertSorted(_, _)
InsertSorted(sorted, x) ==
    IF sorted = <<>> THEN <<x>>
    ELSE IF ByPinnedThenUpdated(Head(sorted), x) <= 0
         THEN <<Head(sorted)>> \o InsertSorted(Tail(sorted), x)
         ELSE <<x>> \o sorted

RECURSIVE SortFrom(_, _, _)
SortFrom(ns, i, sorted) ==
    IF i > Len(ns) THEN sorted
    ELSE IF IsHole(ns[i]) THEN SortFrom(ns, i + 1, sorted)
    ELSE SortFrom(ns, i + 1, InsertSorted(sorted, ns[i]))

\* notes.slice().sort(byPinnedThenUpdated): the empty slots stay empty and
\* end up behind the elements
SortNotes(ns) ==
    LET sorted == SortFrom(ns, 1, <<>>)
    IN  sorted \o [i \in 1..(Len(ns) - Len(sorted)) |-> Hole]

\* .filter((n) => matchesQuery(n, q)): empty slots are skipped
RECURSIVE FilterMatching(_, _)
FilterMatching(list, q) ==
    IF list = <<>> THEN <<>>
    ELSE IF ~IsHole(Head(list)) /\ MatchesQuery(Head(list), q)
         THEN <<Head(list)>> \o FilterMatching(Tail(list), q)
         ELSE FilterMatching(Tail(list), q)

\* render(): the notes that get a list item, in the order shown, for the
\* content `value` of the search field
RenderedList(ns, value) ==
    IF Len(ns) = 0 THEN <<>>
    ELSE FilterMatching(SortNotes(ns), Trim(value))

(***************************************************************************)
(* SpecRender: render applied to a collection and a search field           *)
(***************************************************************************)
\* updatedAt of the notes shown: undefined, or a finite number
ShownStamps == {Absent} \cup 0..MaxTs

\* what an element of a collection can be: a note (title, updatedAt,
\* pinned) or an empty slot
ShownKinds ==
    {Hole} \cup
    {[title |-> t, updatedAt |-> u, pinned |-> p] :
        t \in {<<"a">>, <<"#", "a", "b">>}, u \in ShownStamps, p \in BOOLEAN}

\* the i-th element of a collection
ShownElement(k, i) ==
    IF IsHole(k) THEN Hole
    ELSE Note(IdString(i), k.title, <<>>, 0, k.updatedAt, k.pinned)

SearchValues == {<<>>, <<" ">>, <<" ", " ">>, <<"a">>, <<" ", "#", "A", "B">>}

InitRender ==
    /\ AppIdle
    /\ MergeIdle
    /\ BackupIdle
    /\ \E n \in 0..MaxShown :
          \E ks \in [1..n -> ShownKinds], v \in SearchValues :
              uIn = [notes |-> [i \in 1..n |-> ShownElement(ks[i], i)],
                     value |-> v]
    /\ uOut = <<>>
    /\ uPc = "start"

\* render()
CallRender ==
    /\ uPc = "start"
    /\ uOut' = [list |-> RenderedList(uIn.notes, uIn.value)]
    /\ uPc' = "rendered"
    /\ UNCHANGED <<uIn, appVars, mergeVars, backupVars>>

NextRender == CallRender

SpecRender == InitRender /\ [][NextRender]_vars

(***************************************************************************)
(* SpecLoad: loadNotes applied to what the storage key can hold            *)
(***************************************************************************)
\* elements of a stored array: notes, null, a number
StoredElements ==
    {Note("L", t, Body, 1, 1, FALSE) : t \in Titles} \cup {Null, [num |-> 1]}

StoredContents ==
    {[kind |-> k, items |-> <<>>] : k \in OtherKinds}
        \cup {[kind |-> "array", items |-> s] :
                 s \in UNION {[1..n -> StoredElements] : n \in 0..MaxStored}}

InitLoad ==
    /\ AppIdle
    /\ MergeIdle
    /\ BackupIdle
    /\ uIn \in {[stored |-> b] : b \in StoredContents}
    /\ uOut = <<>>
    /\ uPc = "start"

\* loadNotes(): the catch keeps every exception inside
CallLoadNotes ==
    /\ uPc = "start"
    /\ uOut' = [value |-> LoadNotes(uIn.stored), threw |-> FALSE]
    /\ uPc' = "loaded"
    /\ UNCHANGED <<uIn, appVars, mergeVars, backupVars>>

NextLoad == CallLoadNotes

SpecLoad == InitLoad /\ [][NextLoad]_vars

(***************************************************************************)
(* Spec: the app from page load on                                         *)
(***************************************************************************)
\* the ids a rendered note can carry (data-id of its buttons)
NoteIdSet == {"L"} \cup Range(ServerIdNames)

\* a note saved by an earlier session that the backend does not hold
LocalNote == Note("L", "a", Body, 1, 1, FALSE)

Init ==
    /\ MergeIdle
    /\ UtilIdle
    /\ BackupIdle
    /\ blob \in {MissingBlob, StoredArray(<<LocalNote>>)}
    /\ notes = LoadNotes(blob).items
    /\ remote \in {NoBackend, ServerPost(NoBackend, "a", Body, 1)}
    /\ apiOnline = TRUE
    /\ editingId = NoId
    /\ pending = NoHandler
    /\ lastOp = NoOp
    /\ ops = 0
    /\ dom = PageLoaded
    /\ ProbeIdle
    /\ ThemeIdle

Next ==
    \/ HydrateStart
    \/ HydrateDone
    \/ RefreshStart
    \/ RefreshDone
    \/ \E title \in Titles : CreateStart(title)
    \/ CreateFailed
    \/ CreateReturned
    \/ CreateNoBody
    \/ CreateRefetched
    \/ \E id \in NoteIdSet : EditOpen(id)
    \/ EditCancel
    \/ \E title \in Titles : EditSubmit(title)
    \/ EditFailed
    \/ EditReturned
    \/ EditNoBody
    \/ EditRefetched
    \/ \E id \in NoteIdSet : PinStart(id)
    \/ PinFailed
    \/ PinReturned
    \/ PinNoBody
    \/ PinRefetched
    \/ \E id \in NoteIdSet : DeleteStart(id)
    \/ DeleteCancel
    \/ DeleteConfirm
    \/ DeleteFailed
    \/ DeleteDone
    \/ \E file \in ImportFiles : ImportRejected(file)
    \/ \E file \in ImportFiles : ImportParsed(file)
    \/ \E replace \in BOOLEAN : ImportConfirm(replace)
    \/ ProbeStart
    \/ \E ok \in BOOLEAN : ProbeDone(ok)

Spec == Init /\ [][Next]_vars

(***************************************************************************)
(* app.js (API version): loadNotesFromApi, createNoteViaApi,               *)
(* updateNoteViaApi and deleteNoteViaApi over every outcome of fetch       *)
(* (SpecApi).  A value of a JSON text is a record with a field `kind`; an  *)
(* object is a function from NoteFields to the values of its properties.   *)
(***************************************************************************)
\* what a helper's try block, or the helper, ends with: an exception, an
\* array, a note, null, true or false
NoNote == [f \in NoteFields |-> JsUndef]

Outcome(outcome, items, note) ==
    [outcome |-> outcome, items |-> items, note |-> note]

Throws == Outcome("throws", <<>>, NoNote)
ReturnsArray(items) == Outcome("array", items, NoNote)
ReturnsNote(o) == Outcome("note", <<>>, o)
ReturnsNull == Outcome("null", <<>>, NoNote)
ReturnsBool(b) == Outcome(IF b THEN "true" ELSE "false", <<>>, NoNote)

\* a bug: the helper has no try/catch around its body
CatchNothing(tried, fallback) == tried

\* try { ... } catch (err) { console.error(...); return fallback; }
Catch(tried, fallback) ==
    IF tried.outcome = "throws" THEN fallback ELSE tried

\* res.ok
ResOk(res) == res.status >= 200 /\ res.status <= 299

\* a bug: only undefined falls through, null is taken as a value
CoalesceUndefined(v, w) == IF v.k = "undefined" THEN w ELSE v

\* x ?? y
Nullish(v) == v.k \in {"undefined", "null"}
Coalesce(v, w) == IF Nullish(v) THEN w ELSE v

\* !v is false
Truthy(v) ==
    \/ v.k = "string" /\ v.s # ""
    \/ v.k = "number" /\ v.n # 0
    \/ v.k = "infinity"
    \/ v.k = "boolean" /\ v.b

\* Timestamps of the remote records are counted in units of 10^9 ms (an
\* integer of the model has 32 bits): 1e12 is 1000, and a multiplication
\* by 1000 is exact.
MsThreshold == 1000

\* the strings Date.parse can read
DateTexts == {"2033-05-18T03:33:20Z"}

\* Date.parse(s) of such a string: 2 * 10^12 ms
DateParse(s) == 2000

\* toMs(v) ?? Date.now() (loadNotesFromApi), toMs(v) (the other two):
\*   if (!v) return Date.now();
\*   if (typeof v === 'number') return v > 1e12 ? v : v * 1000;
\*   const t = Date.parse(v); return Number.isFinite(t) ? t : Date.now();
ToMsValue(v, now) ==
    IF ~Truthy(v) THEN JsNum(now)
    ELSE IF v.k = "number"
         THEN (IF v.n > MsThreshold THEN v ELSE JsNum(v.n * 1000))
    ELSE IF v.k = "infinity" THEN v
    ELSE IF v.k = "string" /\ v.s \in DateTexts THEN JsNum(DateParse(v.s))
    ELSE JsNum(now)

\* String(v) of a property value
StringOf(v) ==
    IF v.k = "string" THEN v.s
    ELSE IF v.k = "number" /\ v.n \in 1..Len(ServerIdNames) THEN IdString(v.n)
    ELSE IF v.k = "boolean" THEN (IF v.b THEN "true" ELSE "false")
    ELSE "NaN"

\* crypto.randomUUID()
RandomUuid == JsStr("uuid")

\* the properties of an array element or of a parsed body: those of an
\* object; a number, a text or an array has none of the note's properties
PropertiesOf(v) == IF v.kind = "object" THEN v.o ELSE NoNote

\* n.f of an object: a property the object does not have is undefined
Property(n, f) == IF f \in DOMAIN n THEN n[f] ELSE JsUndef

\* n.f1 ?? n.f2 ?? ... ?? n.fk
RECURSIVE FirstOf(_, _)
FirstOf(n, fields) ==
    IF Len(fields) = 1 THEN Property(n, fields[1])
    ELSE Coalesce(Property(n, Head(fields)), FirstOf(n, Tail(fields)))

IdAliases == <<"id", "noteId", "noteID", "guid", "uuid", "_id", "key">>
TitleAliases == <<"title", "name">>
ContentAliases == <<"content", "body">>
CreatedAliases == <<"createdAt", "created_at", "createdOn", "created_on">>
UpdatedAliases == <<"updatedAt", "updated_at", "modifiedAt", "modified_at">>

\* const id = n.id ?? n.noteId ?? ...; String(id ?? crypto.randomUUID())
NormalizeId(n, minted) ==
    JsStr(StringOf(Coalesce(FirstOf(n, IdAliases), minted)))

\* Boolean(n.pinned ?? false)
NormalizePinned(n) ==
    JsBool(Truthy(Coalesce(Property(n, "pinned"), JsBool(FALSE))))

\* loadNotesFromApi: raw.map((n) => ({ id: String(id ?? randomUUID()), ... }))
NormalizeItem(n, now) ==
    [id |-> NormalizeId(n, RandomUuid),
     title |-> Coalesce(FirstOf(n, TitleAliases), JsStr("")),
     content |-> Coalesce(FirstOf(n, ContentAliases), JsStr("")),
     createdAt |-> ToMsValue(FirstOf(n, CreatedAliases), now),
     updatedAt |-> ToMsValue(FirstOf(n, UpdatedAliases), now),
     pinned |-> NormalizePinned(n)]

\* the try block of loadNotesFromApi: fetch rejects; await res.text() of a
\* response that is not ok rejects; res.json() rejects on a body that is
\* not JSON; n.id of a null element throws
LoadNotesTry(res, now) ==
    IF res.net = "rejects" THEN Throws
    ELSE IF ~ResOk(res)
         THEN (IF res.bodyFails THEN Throws ELSE ReturnsArray(<<>>))
    ELSE IF res.bodyFails \/ res.body.text # "json" THEN Throws
    ELSE IF res.body.value.kind # "array" THEN ReturnsArray(<<>>)
    ELSE LET raw == res.body.value.items IN
         IF \E i \in 1..Len(raw) : raw[i].kind = "null" THEN Throws
         ELSE ReturnsArray([i \in 1..Len(raw) |->
                               NormalizeItem(PropertiesOf(raw[i]), now)])

\* loadNotesFromApi()
LoadNotesCall(res, now) == Catch(LoadNotesTry(res, now), ReturnsArray(<<>>))

\* ct.includes('application/json') && rawText.trim().length > 0, then
\* JSON.parse(rawText) in its own try: null when there is no JSON body or
\* when it cannot be parsed
ParsedBody(res) ==
    IF res.json /\ res.body.text = "json" THEN res.body.value
    ELSE [kind |-> "null"]

\* createNoteViaApi: the returned object
NormalizeCreated(created, title, content, now) ==
    [id |-> JsStr(StringOf(Coalesce(created.id, RandomUuid))),
     title |-> Coalesce(created.title, title),
     content |-> Coalesce(created.content, content),
     createdAt |-> ToMsValue(created.createdAt, now),
     updatedAt |-> ToMsValue(created.updatedAt, now),
     pinned |-> JsBool(Truthy(Coalesce(created.pinned, JsBool(FALSE))))]

\* list.find(pred) over the array of an outcome: 0 when nothing matches
FirstPlace(items, matching) ==
    IF \E i \in 1..Len(items) : items[i] \in matching
    THEN CHOOSE i \in 1..Len(items) :
            /\ items[i] \in matching
            /\ \A j \in 1..(i - 1) : items[j] \notin matching
    ELSE 0

\* the try block of createNoteViaApi({ title, content }); listRes is the
\* response to the GET of its fallback
CreateNoteTry(res, listRes, title, content, now) ==
    IF res.net = "rejects" THEN Throws
    ELSE IF res.status = 405 THEN ReturnsNull
    ELSE IF ~ResOk(res) THEN ReturnsNull
    ELSE IF res.bodyFails THEN Throws
    ELSE LET created == ParsedBody(res) IN
         IF Falsy(created)
         THEN LET list == LoadNotesCall(listRes, now).items
                  at == FirstPlace(list,
                            {x \in Range(list) :
                                x.title = title /\ x.content = content})
              IN  IF at = 0 THEN ReturnsNull ELSE ReturnsNote(list[at])
         ELSE ReturnsNote(NormalizeCreated(PropertiesOf(created), title,
                                           content, now))

\* createNoteViaApi({ title, content })
CreateNoteViaApi(res, listRes, title, content, now) ==
    Catch(CreateNoteTry(res, listRes, title, content, now), ReturnsNull)

\* updateNoteViaApi: the returned object; pinned is undefined when the
\* caller passes none
NormalizeUpdated(updated, id, title, content, pinned, now) ==
    [id |-> JsStr(StringOf(Coalesce(updated.id, id))),
     title |-> Coalesce(updated.title, title),
     content |-> Coalesce(updated.content, content),
     createdAt |-> ToMsValue(updated.createdAt, now),
     updatedAt |-> ToMsValue(updated.updatedAt, now),
     pinned |-> JsBool(Truthy(Coalesce(Coalesce(updated.pinned, pinned),
                                       JsBool(FALSE))))]

\* the try block of updateNoteViaApi(id, { title, content, pinned }): with
\* a JSON body that is null or cannot be parsed `updated` is null and
\* updated.id throws; without a JSON body the list is fetched
UpdateNoteTry(res, listRes, id, title, content, pinned, now) ==
    IF res.net = "rejects" THEN Throws
    ELSE IF res.status = 404 THEN ReturnsNull
    ELSE IF ~ResOk(res) THEN ReturnsNull
    ELSE IF res.bodyFails THEN Throws
    ELSE IF res.json /\ res.body.text # "empty"
         THEN (IF ParsedBody(res).kind = "null" THEN Throws
               ELSE ReturnsNote(NormalizeUpdated(
                        PropertiesOf(ParsedBody(res)), id, title, content,
                        pinned, now)))
    ELSE LET list == LoadNotesCall(listRes, now).items
             at == FirstPlace(list, {x \in Range(list) : x.id = id})
         IN  IF at # 0 THEN ReturnsNote(list[at])
             ELSE ReturnsNote(NormalizeUpdated(NoNote, id, title, content,
                                               pinned, now))

\* updateNoteViaApi(id, { title, content, pinned })
UpdateNoteViaApi(res, listRes, id, title, content, pinned, now) ==
    Catch(UpdateNoteTry(res, listRes, id, title, content, pinned, now),
          ReturnsNull)

\* the try block of deleteNoteViaApi(id)
DeleteNoteTry(res) ==
    IF res.net = "rejects" THEN Throws
    ELSE ReturnsBool(res.status \in {200, 204})

\* deleteNoteViaApi(id)
DeleteNoteViaApi(res) == Catch(DeleteNoteTry(res), ReturnsBool(FALSE))

(***************************************************************************)
(* SpecApi: the four remote helpers, called once each on every response    *)
(***************************************************************************)
\* a record as the backend sends it, and two malformed objects
GoodRecord ==
    [id |-> JsNum(1), title |-> JsStr("a"), content |-> JsStr("x"),
     createdAt |-> JsNum(1), updatedAt |-> JsNum(1), pinned |-> JsBool(TRUE)]

OddRecord ==
    [id |-> JsUndef, title |-> JsNum(5), content |-> JsNull,
     createdAt |-> JsStr("soon"), updatedAt |-> JsBool(TRUE),
     pinned |-> JsStr("yes")]

JsonObject(o) == [kind |-> "object", o |-> o, items |-> <<>>]
JsonArray(items) == [kind |-> "array", o |-> NoNote, items |-> items]
JsonOther(kind) == [kind |-> kind, o |-> NoNote, items |-> <<>>]

\* the values a JSON body can hold
BodyValues ==
    {JsonOther("null"), JsonOther("zero"), JsonOther("number"),
     JsonOther("string"), JsonObject(GoodRecord), JsonObject(NoNote),
     JsonObject(OddRecord), JsonArray(<<>>),
     JsonArray(<<JsonObject(GoodRecord)>>),
     JsonArray(<<JsonObject(OddRecord), JsonObject(GoodRecord)>>),
     JsonArray(<<JsonObject(GoodRecord), JsonOther("null")>>),
     JsonArray(<<JsonOther("number")>>)}

\* the bodies: nothing (or blanks), a text that is not JSON, a JSON text
Bodies ==
    {[text |-> t, value |-> JsonOther("null")] : t \in {"empty", "garbage"}}
    \cup {[text |-> "json", value |-> v] : v \in BodyValues}

Statuses == {200, 201, 204, 404, 405, 500}

\* fetch rejects (no network, CORS, DNS)
Rejected ==
    [net |-> "rejects", status |-> 0, json |-> FALSE,
     body |-> [text |-> "empty", value |-> JsonOther("null")],
     bodyFails |-> FALSE]

\* every outcome of a fetch: it rejects, or it resolves with a status, a
\* content type (JSON or not) and a body, which may fail while it is read
Responses ==
    {Rejected} \cup
    [net : {"answers"}, status : Statuses, json : BOOLEAN, body : Bodies,
     bodyFails : BOOLEAN]

\* the responses to the GET of the fallback
ListResponses ==
    {Rejected} \cup
    {r \in Responses :
        /\ r.status \in {200, 500} /\ r.json /\ ~r.bodyFails
        /\ r.body.text = "json" => r.body.value.kind \in {"array", "object"}}

ApiHelpers == {"list", "create", "update", "delete"}

InitApi ==
    /\ AppIdle /\ MergeIdle /\ BackupIdle
    /\ \E fn \in ApiHelpers, res \in Responses, listRes \in ListResponses,
          pinned \in {JsUndef, JsBool(TRUE)} :
          /\ fn \in {"list", "delete"} => listRes = Rejected
          /\ fn # "update" => pinned = JsUndef
          /\ uIn = [fn |-> fn, res |-> res, listRes |-> listRes,
                    id |-> JsStr("1"), title |-> JsStr("a"),
                    content |-> JsStr("x"), pinned |-> pinned,
                    now |-> MaxClock]
    /\ uOut = Throws
    /\ uPc = "start"

\* await loadNotesFromApi()
CallLoadNotesFromApi ==
    /\ uPc = "start" /\ uIn.fn = "list"
    /\ uOut' = LoadNotesCall(uIn.res, uIn.now)
    /\ uPc' = "done"
    /\ UNCHANGED <<uIn, appVars, mergeVars, backupVars>>

\* await createNoteViaApi({ title, content })
CallCreateNoteViaApi ==
    /\ uPc = "start" /\ uIn.fn = "create"
    /\ uOut' = CreateNoteViaApi(uIn.res, uIn.listRes, uIn.title,
                                uIn.content, uIn.now)
    /\ uPc' = "done"
    /\ UNCHANGED <<uIn, appVars, mergeVars, backupVars>>

\* await updateNoteViaApi(id, { title, content, pinned })
CallUpdateNoteViaApi ==
    /\ uPc = "start" /\ uIn.fn = "update"
    /\ uOut' = UpdateNoteViaApi(uIn.res, uIn.listRes, uIn.id, uIn.title,
                                uIn.content, uIn.pinned, uIn.now)
    /\ uPc' = "done"
    /\ UNCHANGED <<uIn, appVars, mergeVars, backupVars>>

\* await deleteNoteViaApi(id)
CallDeleteNoteViaApi ==
    /\ uPc = "start" /\ uIn.fn = "delete"
    /\ uOut' = DeleteNoteViaApi(uIn.res)
    /\ uPc' = "done"
    /\ UNCHANGED <<uIn, appVars, mergeVars, backupVars>>

NextApi ==
    \/ CallLoadNotesFromApi
    \/ CallCreateNoteViaApi
    \/ CallUpdateNoteViaApi
    \/ CallDeleteNoteViaApi

SpecApi == InitApi /\ [][NextApi]_vars

(***************************************************************************)
(* SpecToMs: the toMs of the three remote helpers applied to the values a  *)
(* JSON body can give for createdAt and updatedAt                          *)
(***************************************************************************)
\* numbers around 0 and around the threshold, in seconds (1) and in
\* milliseconds (1700), Infinity, nothing, texts, booleans
StampNumbers == {-1, 0, 1, 2, MsThreshold - 1, MsThreshold, MsThreshold + 1, 1700}

StampValues ==
    {JsNum(n) : n \in StampNumbers}
    \cup {JsStr(t) : t \in DateTexts \cup {"", "soon"}}
    \cup {JsInf, JsUndef, JsNull, JsBool(TRUE), JsBool(FALSE)}

\* Date.now()
StampNows == {1700, 1701}

InitToMs ==
    /\ AppIdle /\ MergeIdle /\ BackupIdle
    /\ uIn \in [fn : {"list", "create", "update"}, v : StampValues,
                now : StampNows]
    /\ uOut = JsUndef
    /\ uPc = "start"

\* createdAt: toMs(n.createdAt) of one record
CallToMs ==
    /\ uPc = "start"
    /\ uOut' = ToMsValue(uIn.v, uIn.now)
    /\ uPc' = "done"
    /\ UNCHANGED <<uIn, appVars, mergeVars, backupVars>>

NextToMs == CallToMs

SpecToMs == InitToMs /\ [][NextToMs]_vars

(***************************************************************************)
(* SpecNormalize: one remote record, with any of the id fields and any     *)
(* pinned, fetched and normalized twice                                    *)
(***************************************************************************)
\* the id is missing, null, the empty text, a number or a text
IdValues == {JsUndef, JsNull, JsStr(""), JsNum(1), JsStr("id")}

PinnedValues == {JsUndef, JsNull, JsBool(TRUE), JsBool(FALSE)}

\* each of the other id fields is missing, null, or holds its own name
AliasStates == {"missing", "null", "text"}

RemoteRecord(i, p, g) ==
    [f \in Range(IdAliases) \cup {"pinned"} |->
        IF f = "id" THEN i
        ELSE IF f = "pinned" THEN p
        ELSE IF g[f] = "text" THEN JsStr(f)
        ELSE IF g[f] = "null" THEN JsNull
        ELSE JsUndef]

\* crypto.randomUUID() of the first and of the second fetch
MintedIds == <<JsStr("uuid-1"), JsStr("uuid-2")>>

InitNormalize ==
    /\ AppIdle /\ MergeIdle /\ BackupIdle
    /\ \E i \in IdValues, p \in PinnedValues,
          g \in [Range(Tail(IdAliases)) -> AliasStates] :
          uIn = RemoteRecord(i, p, g)
    /\ uOut = <<>>
    /\ uPc = "start"

\* two calls of loadNotesFromApi that find the record uIn in the list
CallNormalizeTwice ==
    /\ uPc = "start"
    /\ uOut' = [i \in 1..2 |->
                   [id |-> NormalizeId(uIn, MintedIds[i]),
                    pinned |-> NormalizePinned(uIn)]]
    /\ uPc' = "done"
    /\ UNCHANGED <<uIn, appVars, mergeVars, backupVars>>

NextNormalize == CallNormalizeTwice

SpecNormalize == InitNormalize /\ [][NextNormalize]_vars

(***************************************************************************)
(* time.js: timeAgo (SpecTime).  A time is a number of whole seconds `s`   *)
(* and the milliseconds `ms` of the running second (an integer of the      *)
(* model has 32 bits, a year of milliseconds needs more).                  *)
(***************************************************************************)
Time(s, ms) == [s |-> s, ms |-> ms]

\* Math.round(a / b) for b > 0: halves are rounded up, also below zero
Round(a, b) == (2 * a + b) \div (2 * b)

\* Math.round((Date.now() - ts) / 1000)
ElapsedSeconds(nowT, ts) == (nowT.s - ts.s) + Round(nowT.ms - ts.ms, 1000)

\* rtf.format(v, unit) of Intl.RelativeTimeFormat('de-DE', numeric 'auto'):
\* "vor ..." for v < 0, "in ..." for v > 0, a word of its own for 0
RtfFormat(v, unit) ==
    [text |-> IF v < 0 THEN "vor" ELSE IF v > 0 THEN "in" ELSE "auto",
     n |-> IF v < 0 THEN -v ELSE v,
     unit |-> unit]

JustNow == [text |-> "gerade eben", n |-> 0, unit |-> ""]

\* timeAgo(ts), called when Date.now() is nowT
TimeAgo(ts, nowT) ==
    LET sec == ElapsedSeconds(nowT, ts)
        min == Round(sec, 60)
        hr == Round(min, 60)
        day == Round(hr, 24)
        week == Round(day, 7)
        month == Round(day, 30)
        year == Round(day, 365)
    IN  IF sec < 45 THEN JustNow
        ELSE IF min < 60 THEN RtfFormat(-min, "minute")
        ELSE IF hr < 24 THEN RtfFormat(-hr, "hour")
        ELSE IF day < 7 THEN RtfFormat(-day, "day")
        ELSE IF week < 5 THEN RtfFormat(-week, "week")
        ELSE IF month < 12 THEN RtfFormat(-month, "month")
        ELSE RtfFormat(-year, "year")

Minute == 60
Hour == 60 * Minute
Day == 24 * Hour

\* the ages of a timestamp in seconds: around every threshold of timeAgo,
\* and in the future by a second, a minute, an hour, a day and a year
AgeSeconds ==
    {0, 1, 44, 45, 89, 90, 59 * Minute + 29, 59 * Minute + 30, Hour,
     23 * Hour + 29 * Minute, 23 * Hour + 30 * Minute, Day, 6 * Day + 11 * Hour,
     6 * Day + 12 * Hour, 7 * Day, 31 * Day, 34 * Day, 35 * Day, 200 * Day,
     344 * Day, 345 * Day, 365 * Day, 1000 * Day}
    \cup {-1, -Minute, -Hour, -Day, -365 * Day}

AgeMillis == {-499, -1, 0, 499, 500}

\* Date.now() at the call
ClockAtCall == Time(2000 * Day, 500)

InitTime ==
    /\ AppIdle /\ MergeIdle /\ BackupIdle
    /\ \E a \in AgeSeconds, m \in AgeMillis :
          uIn = [ts |-> Time(ClockAtCall.s - a, ClockAtCall.ms - m),
                 now |-> ClockAtCall]
    /\ uOut = <<>>
    /\ uPc = "start"

\* timeAgo(n.updatedAt)
CallTimeAgo ==
    /\ uPc = "start"
    /\ uOut' = TimeAgo(uIn.ts, uIn.now)
    /\ uPc' = "done"
    /\ UNCHANGED <<uIn, appVars, mergeVars, backupVars>>

NextTime == CallTimeAgo

SpecTime == InitTime /\ [][NextTime]_vars

(***************************************************************************)
(* theme.js: the theme controller (SpecTheme).  The stored choice and the  *)
(* data-theme attribute are texts, NoTheme standing for null and for no    *)
(* attribute.                                                              *)
(***************************************************************************)
ThemeChoices == {"light", "dark"}

\* what localStorage can hold under the key when the page is loaded: nothing,
\* a choice, or a text the controller never writes
StoredThemes == ThemeChoices \cup {NoTheme, "blue"}

\* loadThemeChoice(): localStorage.getItem(THEME_KEY) ?? null
LoadThemeChoice(stored) == stored

\* saveThemeChoice(choice): removeItem for null, setItem otherwise; setItem
\* throws when the quota is exceeded and leaves the stored text as it was
SaveThemeChoice(full, choice, stored) ==
    IF choice = NoTheme THEN NoTheme
    ELSE IF full THEN stored
    ELSE choice

\* a bug: null sets data-theme="light" instead of removing the attribute
ApplyThemeLight(choice) == IF choice = NoTheme THEN "light" ELSE choice

\* applyTheme(choice): removeAttribute for null, setAttribute otherwise
ApplyTheme(choice) == IF choice = NoTheme THEN NoTheme ELSE choice

\* getEffectiveTheme()
GetEffectiveTheme(stored, prefers) ==
    IF LoadThemeChoice(stored) \in ThemeChoices THEN LoadThemeChoice(stored)
    ELSE IF prefers THEN "dark"
    ELSE "light"

\* effective === 'dark' ? 'light' : 'dark'
NextTheme(effective) == IF effective = "dark" THEN "light" ELSE "dark"

\* history: the event, the effective theme before it, and the same of the
\* event before
ThemeEvent(kind) ==
    [kind |-> kind, was |-> GetEffectiveTheme(themeChoice, prefersDark),
     prev |-> themeOp.kind, wasBefore |-> themeOp.was]

InitTheme ==
    /\ NotesIdle /\ MergeIdle /\ BackupIdle /\ UtilIdle
    /\ themeChoice \in StoredThemes
    /\ dataTheme = NoTheme
    /\ prefersDark \in BOOLEAN
    /\ themePc = "load"
    /\ themeOp = NoThemeOp

\* DOMContentLoaded: initThemeController()
InitThemeController ==
    /\ themePc = "load"
    /\ dataTheme' = ApplyTheme(LoadThemeChoice(themeChoice))
    /\ themePc' = "ready"
    /\ themeOp' = ThemeEvent("init")
    /\ UNCHANGED <<themeChoice, prefersDark, notesVars, mergeVars,
                   backupVars, utilVars>>

\* click on the button: toggleTheme(); applyTheme is not reached when
\* saveThemeChoice throws
ToggleTheme ==
    /\ themePc = "ready"
    /\ \E full \in BOOLEAN :
          LET next == NextTheme(GetEffectiveTheme(themeChoice, prefersDark))
          IN  /\ themeChoice' = SaveThemeChoice(full, next, themeChoice)
              /\ dataTheme' = IF full THEN dataTheme ELSE ApplyTheme(next)
              /\ themeOp' = ThemeEvent(IF full THEN "toggle-threw"
                                       ELSE "toggle")
    /\ UNCHANGED <<prefersDark, themePc, notesVars, mergeVars, backupVars,
                   utilVars>>

\* contextmenu on the button: resetToSystemTheme()
ResetToSystemTheme ==
    /\ themePc = "ready"
    /\ themeChoice' = SaveThemeChoice(FALSE, NoTheme, themeChoice)
    /\ dataTheme' = ApplyTheme(NoTheme)
    /\ themeOp' = ThemeEvent("reset")
    /\ UNCHANGED <<prefersDark, themePc, notesVars, mergeVars, backupVars,
                   utilVars>>

\* the OS setting changes; once initThemeController has run, the listener
\* of the media query calls applyTheme(null) when no choice is stored
SystemPreferenceChange ==
    /\ prefersDark' = ~prefersDark
    /\ dataTheme' = IF themePc = "ready" /\ LoadThemeChoice(themeChoice) = NoTheme
                    THEN ApplyTheme(NoTheme)
                    ELSE dataTheme
    /\ themeOp' = ThemeEvent("system")
    /\ UNCHANGED <<themeChoice, themePc, notesVars, mergeVars, backupVars,
                   utilVars>>

NextThemeController ==
    \/ InitThemeController
    \/ ToggleTheme
    \/ ResetToSystemTheme
    \/ SystemPreferenceChange

SpecTheme == InitTheme /\ [][NextThemeController]_vars

(* `probes` lists the calls in flight, oldest first; `late` is history: a  *)
(* call started after this one has already reached setState.               *)
(***************************************************************************)
InFlight(stage) == [stage |-> stage, late |-> FALSE]

\* the entries before place i are marked as overtaken, entry i is removed
Overtake(ps, i) ==
    [j \in 1..(Len(ps) - 1) |->
        IF j < i THEN [ps[j] EXCEPT !.late = TRUE] ELSE ps[j + 1]]

\* a bug: only the immediate check runs, the interval is never set up
ProbeSendOnce ==
    /\ probes = <<>> /\ lastOp = NoOp
    /\ probes' = Append(probes, InFlight("sent"))
    /\ UNCHANGED <<reachable, apiOnline, lastOp>>
    /\ UNCHANGED <<notes, blob, remote, editingId, pending, ops, dom,
                   mergeVars, backupVars, utilVars,
                   themeVars>>

\* pingApi().then(setState) at page load and setInterval(..., 30_000):
\* pingApi() is called, up to its await fetch.  At most MaxProbes calls
\* are in flight.
ProbeSend ==
    /\ Len(probes) < MaxProbes
    /\ probes' = Append(probes, InFlight("sent"))
    /\ UNCHANGED <<reachable, apiOnline, lastOp>>
    /\ UNCHANGED <<notes, blob, remote, editingId, pending, ops, dom,
                   mergeVars, backupVars, utilVars,
                   themeVars>>

\* the fetch of call i settles: res.ok when the backend is reachable, a
\* rejection or a status that is not ok when it is not
ProbeAnswered(i) ==
    /\ i \in 1..Len(probes)
    /\ probes[i].stage = "sent"
    /\ probes' = [probes EXCEPT
                     ![i].stage = IF reachable THEN "ok" ELSE "fail"]
    /\ UNCHANGED <<reachable, apiOnline, lastOp>>
    /\ UNCHANGED <<notes, blob, remote, editingId, pending, ops, dom,
                   mergeVars, backupVars, utilVars,
                   themeVars>>

\* call i resumes after its await and its result reaches setState(ok):
\* apiOnline = ok
ProbeSettled(i) ==
    /\ i \in 1..Len(probes)
    /\ probes[i].stage \in {"ok", "fail"}
    /\ apiOnline' = (probes[i].stage = "ok")
    /\ lastOp' = [kind |-> "probe", result |-> probes[i].stage,
                  late |-> probes[i].late]
    /\ probes' = Overtake(probes, i)
    /\ UNCHANGED reachable
    /\ UNCHANGED <<notes, blob, remote, editingId, pending, ops, dom,
                   mergeVars, backupVars, utilVars,
                   themeVars>>

\* the backend goes down or comes back
ReachabilityChanges ==
    /\ reachable' = ~reachable
    /\ UNCHANGED <<probes, apiOnline, lastOp>>
    /\ UNCHANGED <<notes, blob, remote, editingId, pending, ops, dom,
                   mergeVars, backupVars, utilVars,
                   themeVars>>

InitProbe ==
    /\ MergeIdle /\ BackupIdle /\ UtilIdle
    /\ notes = <<>> /\ blob = MissingBlob /\ remote = NoBackend
    /\ editingId = NoId /\ pending = NoHandler /\ ops = 0
    /\ dom = PageLoaded
    /\ lastOp = NoOp
    /\ apiOnline = TRUE
    /\ probes = <<>>
    /\ reachable \in BOOLEAN
    /\ ThemeIdle

NextProbe ==
    \/ ProbeSend
    \/ \E i \in ProbeSlots : ProbeAnswered(i)
    \/ \E i \in ProbeSlots : ProbeSettled(i)
    \/ ReachabilityChanges

\* The interval timer keeps firing and a call whose fetch has settled
\* resumes (the event loop runs every ready callback); that every fetch
\* settles is the hypothesis of the convergence claim.  Nothing is assumed
\* about the backend.
FairProbe ==
    /\ WF_vars(ProbeSend)
    /\ \A i \in ProbeSlots : WF_vars(ProbeAnswered(i))
    /\ \A i \in ProbeSlots : WF_vars(ProbeSettled(i))

SpecProbe == InitProbe /\ [][NextProbe]_vars /\ FairProbe

(***************************************************************************)
(* SpecRead: the app with requests that are never answered.  fetch has no  *)
(* timeout and no AbortSignal, so the promise of such a request never      *)
(* settles and the handler stays suspended.                                *)
(***************************************************************************)
\* the GET of hydrateNotes is never answered
HydrateHangs ==
    /\ pending["hydrate"].stage = "sent"
    /\ pending' = [pending EXCEPT !["hydrate"] = [stage |-> "hung"]]
    /\ UNCHANGED <<notes, blob, remote, apiOnline, editingId, lastOp, ops,
                   dom, mergeVars, backupVars, utilVars, probeVars,
                   themeVars>>

\* the GET of refreshFromApi is never answered
RefreshHangs ==
    /\ pending["refresh"].stage = "sent"
    /\ pending' = [pending EXCEPT !["refresh"] = [stage |-> "hung"]]
    /\ UNCHANGED <<notes, blob, remote, apiOnline, editingId, lastOp, ops,
                   dom, mergeVars, backupVars, utilVars, probeVars,
                   themeVars>>

NextRead ==
    \/ Next
    \/ HydrateHangs
    \/ RefreshHangs

\* DOMContentLoaded fires, and a handler whose request is answered resumes
\* (the event loop runs every ready callback).  Whether a request is
\* answered is the backend's choice (HydrateHangs, RefreshHangs), and
\* nothing is assumed about what the user does.
FairRead ==
    /\ WF_vars(HydrateStart)
    /\ WF_vars(HydrateDone)
    /\ WF_vars(RefreshDone)

SpecRead == Init /\ [][NextRead]_vars /\ FairRead

(***************************************************************************)
(* Claims about mergeNotes (SpecMerge)                                     *)
(***************************************************************************)
\* the timestamp a claim compares: an absent updatedAt counts as 0
ClaimStamp(n) == IF n.updatedAt = Absent THEN 0 ELSE n.updatedAt

UniqueIds(s) == \A i, j \in 1..Len(s) : s[i].id = s[j].id => i = j

OccursOnce(s, id) == Cardinality({i \in 1..Len(s) : s[i].id = id}) = 1

NotesWithId(s, id) == {s[i] : i \in {k \in 1..Len(s) : s[k].id = id}}

\* two arrays hold the same id-keyed mapping: the same ids and, per id, the
\* same note
SameMapping(r, x) ==
    /\ Ids(r) = Ids(x)
    /\ \A id \in Ids(x) : NotesWithId(r, id) = NotesWithId(x, id)

\* C6: for a base note b and an incoming note m with the same id (the only
\* notes with that id in their arrays), the merge returns m when
\* m.updatedAt >= b.updatedAt (a tie favours the incoming note) and b when
\* m.updatedAt < b.updatedAt; an absent updatedAt compares as 0.
C6_MergeTieBreak ==
    mDone =>
        \A i \in 1..Len(mBase), j \in 1..Len(mIncoming) :
            LET b == mBase[i]
                m == mIncoming[j]
            IN  (/\ b.id = m.id
                 /\ OccursOnce(mBase, b.id)
                 /\ OccursOnce(mIncoming, m.id))
                => NotesWithId(mResult, b.id) =
                       {IF ClaimStamp(m) >= ClaimStamp(b) THEN m ELSE b}

\* C6 witness: a merge has returned the incoming note of a tie in which the
\* base note has updatedAt 0 and the incoming note has no updatedAt
C6_Witness ==
    /\ mDone
    /\ \E i \in 1..Len(mBase), j \in 1..Len(mIncoming) :
           /\ mBase[i].id = mIncoming[j].id
           /\ OccursOnce(mBase, mBase[i].id)
           /\ OccursOnce(mIncoming, mBase[i].id)
           /\ mBase[i].updatedAt = 0
           /\ mIncoming[j].updatedAt = Absent
           /\ mBase[i] # mIncoming[j]
           /\ mIncoming[j] \in Range(mResult)

\* C7: for every id, the note the merge returns for that id has an
\* updatedAt greater than or equal to the updatedAt of every note with that
\* id in base and in incoming (absent compares as 0).
C7_MergeLastWriteWins ==
    mDone =>
        \A r \in Range(mResult) :
            \A x \in Range(mBase) \cup Range(mIncoming) :
                x.id = r.id => ClaimStamp(r) >= ClaimStamp(x)

\* C8: the ids of the merge are the union of the ids of base and incoming,
\* each id occurs exactly once in the result, and every returned note is
\* one of the input notes.
C8_MergeIdKeyedUnion ==
    mDone =>
        /\ Ids(mResult) = Ids(mBase) \cup Ids(mIncoming)
        /\ UniqueIds(mResult)
        /\ Range(mResult) \subseteq Range(mBase) \cup Range(mIncoming)

\* C8 witness: a merge has returned two notes for a base that holds one id
\* twice and an incoming array that holds that id and another one
C8_Witness ==
    /\ mDone
    /\ Len(mBase) = 2
    /\ Cardinality(Ids(mBase)) = 1
    /\ Len(mIncoming) = 2
    /\ Ids(mIncoming) = MergeIds
    /\ Len(mResult) = 2

\* C9: for every collection X (an array with unique ids), merge(X, X),
\* merge(X, []) and merge([], X) hold the same id-keyed mapping as X.
C9_MergeIdempotent ==
    mDone =>
        /\ (mIncoming = mBase /\ UniqueIds(mBase))
               => SameMapping(mResult, mBase)
        /\ (mIncoming = <<>> /\ UniqueIds(mBase))
               => SameMapping(mResult, mBase)
        /\ (mBase = <<>> /\ UniqueIds(mIncoming))
               => SameMapping(mResult, mIncoming)

\* C9 witness: merge(X, X) has returned for an X of two notes
C9_Witness ==
    /\ mDone
    /\ mIncoming = mBase
    /\ UniqueIds(mBase)
    /\ Len(mBase) = 2
    /\ Len(mResult) = 2

(***************************************************************************)
(* Claims about the frame of mergeNotes (SpecMerge)                        *)
(***************************************************************************)
MergeCalled == ~mDone /\ mDone'

\* C33: for base and incoming arrays whose elements each have an id and a
\* numeric or absent updatedAt, mergeNotes returns an array of notes and
\* leaves both arrays, and with them every note in them, as they were
\* (mergeNotes(X, X) is called with X as both arguments).
C33_MergePureAndTotal ==
    [][MergeCalled =>
           /\ mBase' = mBase
           /\ mIncoming' \in {mIncoming, mBase}
           /\ DOMAIN mResult' = 1..Len(mResult')
           /\ Len(mResult') <= Len(mBase) + Len(mIncoming)
           /\ \A i \in 1..Len(mResult') :
                  mResult'[i] \in Range(mBase) \cup Range(mIncoming)]_vars

\* a merge has returned for two full arrays, one with an id twice and a
\* note without updatedAt, and both arrays are what was passed in
C33_Witness ==
    /\ mDone
    /\ Len(mBase) = MaxLen /\ Len(mIncoming) = MaxLen
    /\ mBase # mIncoming
    /\ ~UniqueIds(mIncoming)
    /\ \E i \in 1..Len(mBase) : mBase[i].updatedAt = Absent
    /\ mResult # <<>>
    /\ Range(mResult) \subseteq Range(mBase) \cup Range(mIncoming)

(***************************************************************************)
(* Claims about the backup round trip (SpecBackup)                         *)
(***************************************************************************)
\* the schema of a note as the claim states it: id, title and content are
\* strings, pinned is a boolean, createdAt and updatedAt finite numbers
IsSchemaValid(o) ==
    /\ {o.id.k, o.title.k, o.content.k} = {"string"}
    /\ o.pinned.k = "boolean"
    /\ {o.createdAt.k, o.updatedAt.k} = {"number"}

AllValid(arr) == \A i \in 1..Len(arr) : IsSchemaValid(arr[i])

\* C10: for every collection S (unique ids) whose notes are all
\* schema-valid, parsing the exported document of S and merging the parsed
\* notes with an empty collection yields exactly the notes of S (same ids,
\* same fields), ignoring order.
C10_ExportImportRoundTrip ==
    (bPc = "merged" /\ AllValid(bNotes) /\ UniqueIds(bNotes))
        => /\ Range(bMerged) = {PlainNote(bNotes[i]) : i \in 1..Len(bNotes)}
           /\ Len(bMerged) = Len(bNotes)
           /\ bParsed.error = "" \/ bNotes = <<>>

\* C10 witness: a collection of two schema-valid notes, one pinned and one
\* not, has been exported, parsed and merged
C10_Witness ==
    /\ bPc = "merged"
    /\ AllValid(bNotes)
    /\ UniqueIds(bNotes)
    /\ Len(bNotes) = 2
    /\ bNotes[1].pinned # bNotes[2].pinned
    /\ Len(bMerged) = 2


(***************************************************************************)
(* Claims about the app (Spec)                                             *)
(***************************************************************************)
SyncKinds == {"hydrate", "refresh"}

WriteKinds == {"create", "edit", "pin", "delete"}

\* the notes of an array that has empty slots
SolidNotes(ns) == {ns[i] : i \in Solid(ns)}

\* the notes of the stored JSON array (null entries left out)
BlobNotes == {blob.items[i] : i \in Solid(blob.items)}

NoTwoWithSameId(ns) ==
    \A i, j \in Solid(ns) : ns[i].id = ns[j].id => i = j

\* C1: when fetching the remote collection fails, at startup hydration and
\* at a refresh, the in-memory collection and the stored blob are after the
\* operation what they were before it.
C1_ReadFailureKeepsLocal ==
    (lastOp.kind \in SyncKinds /\ lastOp.result = "read-fail")
        => (notes = lastOp.pre /\ blob = lastOp.preBlob)

\* C2: create, edit-save, pin-toggle and delete issue their remote request
\* exactly once, and when it fails the in-memory collection and the stored
\* blob are unchanged and the user is notified.
C2_WriteFailureKeepsLocal ==
    /\ (lastOp.kind \in WriteKinds /\ lastOp.result # "cancelled")
           => lastOp.writes = 1
    /\ (lastOp.kind \in WriteKinds /\ lastOp.result = "remote-fail")
           => (notes = lastOp.pre /\ blob = lastOp.preBlob /\ lastOp.alerted)

C2_Witness ==
    /\ lastOp.kind = "create"
    /\ lastOp.result = "remote-fail"
    /\ Len(notes) > 0
    /\ blob = StoredArray(notes)

C4_IdsUnique ==
    /\ NoTwoWithSameId(notes)
    /\ NoTwoWithSameId(blob.items)

\* C5: after an edit-save or pin-toggle on a note, the note has the id and
\* the createdAt it had before the operation.
C5_IdAndCreatedAtKept ==
    (lastOp.kind \in {"edit", "pin"} /\ lastOp.result = "ok")
        => \A n \in SolidNotes(lastOp.pre) :
               n.id = lastOp.id
                   => \E m \in SolidNotes(notes) :
                          m.id = n.id /\ m.createdAt = n.createdAt


(***************************************************************************)
(* Claims about the import of a file (SpecImport, Spec)                    *)
(***************************************************************************)
\* the candidate objects of the chosen file (none when the text is not
\* JSON or holds no array)
FileObjects == bFile.notes

ValidPlaces == {i \in 1..Len(FileObjects) : IsSchemaValid(FileObjects[i])}

Count(s, x) == Cardinality({i \in 1..Len(s) : s[i] = x})

\* C11: an object of an import file (wrapped form or bare array) reaches
\* the collection if and only if its id, title and content are strings,
\* pinned is a boolean and createdAt / updatedAt are finite numbers; the
\* other objects are dropped and the valid ones are still imported.
C11_ImportSchemaGate ==
    /\ bPc \in {"read", "rejected", "replaced", "merged-in"}
          => /\ \A o \in CandidateSet :
                    Count(bParsed.notes, o) =
                        IF IsSchemaValid(o) THEN Count(FileObjects, o) ELSE 0
             /\ bParsed.error = "" <=> ValidPlaces # {}
    /\ bPc = "replaced"
          => /\ Len(bMerged) = Cardinality(ValidPlaces)
             /\ \A o \in CandidateSet :
                    IsSchemaValid(o)
                        => Count(bMerged, PlainNote(o)) = Count(FileObjects, o)
    /\ bPc = "merged-in"
          => /\ Range(bMerged) \subseteq
                    Range(bNotes) \cup
                        {PlainNote(FileObjects[i]) : i \in ValidPlaces}
             /\ \A i \in ValidPlaces : FileObjects[i].id.s \in Ids(bMerged)
             /\ Ids(bMerged) =
                    Ids(bNotes) \cup {FileObjects[i].id.s : i \in ValidPlaces}

\* C11 witness: a file of one valid and one invalid object has replaced
\* the collection, which now holds the valid one
C11_Witness ==
    /\ bPc = "replaced"
    /\ Len(FileObjects) = 2
    /\ Cardinality(ValidPlaces) = 1
    /\ Len(bMerged) = 1
    /\ bMerged[1].id = "b"

\* C12: when the chosen file is not valid JSON or holds no schema-valid
\* note, an error is reported, no replace/merge dialog is offered and the
\* in-memory collection and the stored blob are unchanged; otherwise at
\* least one valid note proceeds to the replace/merge dialog.
C12_ImportRejection ==
    /\ [](/\ (lastOp.kind = "import" /\ lastOp.result = "rejected")
                 => /\ lastOp.alerted
                    /\ notes = lastOp.pre
                    /\ blob = lastOp.preBlob
          /\ pending["import"].stage = "dialog"
                 => /\ Len(pending["import"].incoming) >= 1
                    /\ \A n \in Range(pending["import"].incoming) :
                           n \in {PlainNote(o) : o \in
                                     {x \in UNION {Range(f.notes) :
                                                     f \in ImportFiles} :
                                         IsSchemaValid(x)}})
    /\ [][(lastOp' # lastOp /\ lastOp'.kind = "import"
              /\ lastOp'.result = "rejected")
             => (pending' = pending /\ notes' = notes /\ blob' = blob)]_vars

\* C12 witness: a file was rejected while the collection held a note
C12_Witness ==
    /\ lastOp.kind = "import"
    /\ lastOp.result = "rejected"
    /\ lastOp.alerted
    /\ Len(notes) > 0
    /\ pending["import"].stage = "idle"

(***************************************************************************)
(* Claims about matchesQuery (SpecQuery)                                   *)
(***************************************************************************)
\* the query of the call, parsed, and the tags of its note
QueryOf == ParseQuery(uIn.q)
QueriedTags == Range(QueryOf.tags)
NoteTagSet == Range(ExtractTags(<<uIn.note.title, uIn.note.content>>))

\* s is a substring of t
IsSubstring(s, t) ==
    \E a \in 0..Len(t) :
        /\ a + Len(s) <= Len(t)
        /\ \A k \in 1..Len(s) : t[a + k] = s[k]

TextFound ==
    \/ IsSubstring(ToLowerCase(QueryOf.text), ToLowerCase(uIn.note.title))
    \/ IsSubstring(ToLowerCase(QueryOf.text), ToLowerCase(uIn.note.content))

\* C13: the tag filter has AND semantics.  For a query with one or more
\* #tags matchesQuery is false whenever a queried tag is not among the tags
\* of the note's title and content, whatever the free text is; a query of
\* tags only matches exactly when every queried tag is among them.
C13_TagFilterAnd ==
    (uPc = "matched" /\ QueriedTags # {}) =>
        /\ (~(QueriedTags \subseteq NoteTagSet)) => ~uOut.match
        /\ QueryOf.text = <<>> =>
               (uOut.match <=> QueriedTags \subseteq NoteTagSet)

\* two tags are queried, one is in the note and the other is not, and the
\* free text is in the note: no match
C13_Witness ==
    /\ uPc = "matched"
    /\ Cardinality(QueriedTags) = 2
    /\ QueriedTags \cap NoteTagSet # {}
    /\ ~(QueriedTags \subseteq NoteTagSet)
    /\ QueryOf.text # <<>>
    /\ TextFound
    /\ ~uOut.match

\* C14: a query with free text T and tags G matches exactly when every tag
\* of G is among the tags of the note and lower-case T is a substring of
\* the lower-case title or of the lower-case content.
C14_TagsAndText ==
    (uPc = "matched" /\ QueryOf.text # <<>>) =>
        (uOut.match <=> (QueriedTags \subseteq NoteTagSet /\ TextFound))

\* a query with a tag and a text in another case than the note's: the tag
\* is in the note, the text is in the content only, and the note matches
C14_Witness ==
    /\ uPc = "matched"
    /\ QueriedTags # {}
    /\ QueriedTags \subseteq NoteTagSet
    /\ QueryOf.text # <<>>
    /\ QueryOf.text # ToLowerCase(QueryOf.text)
    /\ ~IsSubstring(ToLowerCase(QueryOf.text), ToLowerCase(uIn.note.title))
    /\ uOut.match

(***************************************************************************)
(* Claims about extractTags and parseQuery (SpecTags)                      *)
(***************************************************************************)
\* ASCII letters, digits, '_' and '-'
TagLetter(c) == c \in LowerLetters \cup UpperLetters \cup Digits \cup {"_", "-"}

\* the number of such characters that directly follow place h of s
RunAfter(s, h) ==
    CHOOSE n \in 0..(Len(s) - h) :
        /\ \A j \in 1..n : TagLetter(s[h + j])
        /\ n < Len(s) - h => ~TagLetter(s[h + n + 1])

\* the punctuation characters of the texts
Punctuation ==
    {".", ",", ";", ":", "!", "?", "(", ")", "[", "]", "{", "}", "-", "_", "#"}

\* place h of s holds a '#' at the start or after a character of lead
HashAt(s, h, lead) == s[h] = "#" /\ (h = 1 \/ s[h - 1] \in lead)

AlphaNum(s, j) ==
    j >= 1 /\ j <= Len(s) /\ s[j] \in
        LowerLetters \cup UpperLetters \cup Digits \cup {"_"}

\* the length of the tag after the '#' at place h: the longest run of 2 to
\* 24 tag characters that ends between a letter, digit or '_' and another
\* character (or the end of the text); 0 when there is none
TagEnd(s, h) ==
    LET K == {k \in 2..24 : /\ k <= RunAfter(s, h)
                            /\ AlphaNum(s, h + k) # AlphaNum(s, h + k + 1)}
    IN  IF K = {} THEN 0 ELSE CHOOSE k \in K : \A x \in K : x <= k

TagPlaces(s, lead) ==
    {h \in 1..Len(s) : HashAt(s, h, lead) /\ TagEnd(s, h) > 0}

TagAtPlace(s, h) == ToLowerCase(SubSeqOf(s, h + 1, h + TagEnd(s, h)))

NoDuplicates(seq) ==
    \A i, j \in 1..Len(seq) : seq[i] = seq[j] => i = j

\* C16: the tags extractTags returns are exactly the lower-cased,
\* de-duplicated runs of 2 to 24 tag characters that directly follow a '#'
\* standing at the start of the text or after whitespace or punctuation.
C16_TagGrammarAsStated ==
    uPc = "extracted" =>
        /\ NoDuplicates(uOut.tags)
        /\ Range(uOut.tags) =
               {ToLowerCase(SubSeqOf(uIn.text, h + 1,
                                     h + RunAfter(uIn.text, h))) :
                   h \in {p \in 1..Len(uIn.text) :
                             /\ HashAt(uIn.text, p, Spaces \cup Punctuation)
                             /\ RunAfter(uIn.text, p) \in 2..24}}

\* the tags of s from place i on, in the order of their places
RECURSIVE TagsFrom(_, _, _)
TagsFrom(s, i, lead) ==
    IF i > Len(s) THEN <<>>
    ELSE IF i \in TagPlaces(s, lead)
         THEN <<TagAtPlace(s, i)>> \o TagsFrom(s, i + 1, lead)
         ELSE TagsFrom(s, i + 1, lead)

\* place i of s belongs to a tag token ('#' and its tag)
InToken(s, i, lead) ==
    \E h \in TagPlaces(s, lead) : h <= i /\ i <= h + TagEnd(s, h)

\* s without the characters of its tag tokens
RECURSIVE WithoutTokens(_, _, _)
WithoutTokens(s, i, lead) ==
    IF i > Len(s) THEN <<>>
    ELSE IF InToken(s, i, lead) THEN WithoutTokens(s, i + 1, lead)
    ELSE <<s[i]>> \o WithoutTokens(s, i + 1, lead)

PlaceIn(ns, x) == CHOOSE i \in 1..Len(ns) : ns[i] = x

\* C15: matchesQuery is true for every note when the query is empty or
\* only whitespace, so with an empty search field the rendered list holds
\* every note of the collection (once).
C15_EmptyQueryMatchesAll ==
    (uPc = "rendered" /\ Trim(uIn.value) = <<>>) =>
        /\ \A i \in Solid(uIn.notes) : MatchesQuery(uIn.notes[i], uIn.value)
        /\ \A i \in Solid(uIn.notes) : Count(uOut.list, uIn.notes[i]) = 1
        /\ Len(uOut.list) = Cardinality(Solid(uIn.notes))

\* a search field of two blanks and a collection of three notes, one of
\* them with a tag: all three are shown
C15_Witness ==
    /\ uPc = "rendered"
    /\ uIn.value = <<" ", " ">>
    /\ Cardinality(Solid(uIn.notes)) = 3
    /\ \E i \in Solid(uIn.notes) : uIn.notes[i].title = <<"#", "a", "b">>
    /\ Len(uOut.list) = 3

\* C18: in the rendered list the pinned notes precede the unpinned ones;
\* notes of the same pinned status are ordered by updatedAt descending; a
\* note without updatedAt comes after every note of the same pinned status
\* that has one; notes that compare equal keep their order of the
\* collection.
C18_DisplayOrder ==
    uPc = "rendered" =>
        \A i, j \in 1..Len(uOut.list) :
            LET a == uOut.list[i]
                b == uOut.list[j]
            IN  i < j =>
                    /\ ~(~a.pinned /\ b.pinned)
                    /\ a.pinned = b.pinned =>
                        /\ (a.updatedAt # Absent /\ b.updatedAt # Absent)
                               => a.updatedAt >= b.updatedAt
                        /\ ~(a.updatedAt = Absent /\ b.updatedAt # Absent)
                        /\ a.updatedAt = b.updatedAt =>
                               PlaceIn(uIn.notes, a) < PlaceIn(uIn.notes, b)

(***************************************************************************)
(* Claims about loadNotes (SpecLoad)                                       *)
(***************************************************************************)
\* C19: loadNotes is total: whatever the storage key holds (nothing, a
\* text that is not JSON, JSON that is not an array of notes) it returns a
\* sequence and does not throw, and it returns the empty sequence when the
\* key is missing or its content is not JSON.
C19_LoadTotal ==
    uPc = "loaded" =>
        /\ ~uOut.threw
        /\ uOut.value.kind = "array"
        /\ uIn.stored.kind \in {"missing", "invalid"} =>
               uOut.value = EmptyArray

(***************************************************************************)
(* Claims about a failing local write (Spec)                               *)
(***************************************************************************)
\* C20: when saveNotes throws during create, edit-save, pin-toggle, delete
\* or import, the user is notified and the in-memory collection and the
\* stored blob are what they were before the operation.
C20_SaveFailureKeepsState ==
    (lastOp.kind \in WriteKinds \cup {"import"} /\ lastOp.result = "save-fail")
        => /\ lastOp.alerted
           /\ notes = lastOp.pre
           /\ blob = lastOp.preBlob

(***************************************************************************)
(* Claims about the availability flag and the remote operations (Spec)     *)
(***************************************************************************)
\* a step in which a create, edit-save, pin-toggle or delete handler sends
\* its POST, PUT or DELETE
IssuesWrite ==
    \E k \in WriteKinds :
        pending[k].stage # "sent" /\ pending'[k].stage = "sent"

\* a step in which one of these handlers ends and has changed `notes`
CompletesChange ==
    \E k \in WriteKinds :
        Active(k) /\ pending'[k].stage = "idle" /\ notes' # notes

\* C21: while the availability flag is false no create, edit-save,
\* pin-toggle or delete handler sends a remote write or changes the
\* in-memory collection.  (The handlers test the flag only when they start:
\* a DELETE is sent after the dialog, and a response is applied, whatever
\* the flag has become.)
C21_OfflineGatesMutations ==
    [][~apiOnline => ~IssuesWrite /\ ~CompletesChange]_vars

\* a step in which a remote read or write ends with a fault (fetch rejects,
\* the status is not the expected one, the body cannot be read)
FaultCompletes ==
    /\ \E k \in SyncKinds \cup WriteKinds :
          /\ pending[k].stage \in {"sent", "refetch"}
          /\ pending'[k].stage \in {"idle", "done"}
    /\ lastOp'.result \in {"read-fail", "remote-fail"}

\* C25: when a remote read or write has failed, the availability flag is
\* false once that operation has completed.  (Only setState of the probe
\* assigns apiOnline; the catch blocks of the remote helpers log and return.)
C25_FaultFlipsFlag ==
    [][FaultCompletes => ~apiOnline']_vars

\* a step in which the edit-save or pin-toggle handler k ends
EndsMutation(k) ==
    /\ pending[k].stage \in {"sent", "refetch"}
    /\ pending'[k].stage = "idle"

\* the step leaves every place of `notes` as it was, except a place that
\* holds the note with this id; no place is added
OnlyTargetWritten(id) ==
    /\ Len(notes') = Len(notes)
    /\ \A i \in 1..Len(notes) :
          \/ IsNote(notes[i]) /\ notes[i].id = id
          \/ notes'[i] = notes[i]

\* C27: under every interleaving of the handlers a completed edit-save or
\* pin-toggle writes only to the note whose id it targeted.  (Both handlers
\* take the index of the note before their await and write to that index
\* after it, wherever the note is by then.)
C27_MutationsHitOwnTarget ==
    [][\A k \in {"edit", "pin"} :
          EndsMutation(k) => OnlyTargetWritten(pending[k].id)]_vars

\* a step in which the create handler ends and has added a note
CreateAdds ==
    /\ pending["create"].stage \in {"sent", "refetch"}
    /\ pending'["create"].stage = "idle"
    /\ Len(notes') = Len(notes) + 1

\* C30: every note the create operation adds to the collection has an id
\* that no note of the collection had, is not pinned, and has createdAt
\* equal to updatedAt.  (When the POST answers without a body the handler
\* takes the first record of the re-fetched list that has the title and
\* the content, which can be a record the collection already holds.)
C30_CreatedNoteIsFresh ==
    [][CreateAdds =>
          LET n == notes'[1] IN
          /\ n.id \notin NoteIds(notes)
          /\ n.pinned = FALSE
          /\ n.createdAt = n.updatedAt]_vars

\* no handler is suspended and the startup hydration has finished
HandlersFinished ==
    /\ pending["hydrate"].stage = "done"
    /\ \A k \in Handlers : ~Active(k)

\* C26: once the handler of the last operation has finished, the Export
\* button is disabled if and only if the in-memory collection is empty.
\* (render() alone sets the button, and a handler whose saveNotes throws
\* has changed `notes` and does not reach render().)
C26_ExportTracksCollection ==
    HandlersFinished => (dom.exportDisabled <=> Len(notes) = 0)

\* a step of the availability probe: pingApi() is called, or its result
\* reaches setState
ProbeStep == pending'["probe"] # pending["probe"]

\* C28: a probe step, whatever handlers are suspended, leaves the in-memory
\* collection and the stored blob as they are; besides its own position it
\* changes the availability flag only (the controls' enabled state follows
\* the flag).
C28_ProbeLeavesNotes ==
    [][ProbeStep =>
          /\ notes' = notes
          /\ blob' = blob
          /\ remote' = remote
          /\ editingId' = editingId
          /\ dom' = dom
          /\ \A k \in Handlers \ {"probe"} : pending'[k] = pending[k]]_vars

\* a probe has failed while a create was waiting for its POST (the create
\* handler starts only with the flag true), and the collection holds a note
C28_Witness ==
    /\ ~apiOnline
    /\ pending["probe"].stage = "idle"
    /\ pending["create"].stage = "sent"
    /\ notes # <<>>

\* the record the backend holds for this id after the step, as a Note
Authoritative(id) == NormalizeRecord(ServerRecordOf(remote', id), Latest)

\* the id of the record the POST of the ending create handler has made
CreatedId ==
    IF pending["create"].stage = "refetch" THEN pending["create"].made
    ELSE IdString(remote.nextId)

\* a step in which the edit-save or pin-toggle handler k ends after the
\* backend has accepted its PUT
EndsAccepted(k) == EndsMutation(k) /\ lastOp'.result # "remote-fail"

\* C22: after a successful create or update the local copy is the record
\* the backend returned; when the response has no body, it is the record of
\* the re-fetched list whose id is the id of the affected note.  (Without a
\* body the create path searches the list by title and content, and the
\* update path makes a record up from its arguments when the list does not
\* hold the id.)
C22_AdoptsAuthoritativeRecord ==
    [][/\ CreateAdds => notes'[1] = Authoritative(CreatedId)
       /\ EndsAccepted("edit") =>
             /\ ServerHas(remote', pending["edit"].id)
             /\ notes'[pending["edit"].idx] =
                    Authoritative(pending["edit"].id)
       /\ EndsAccepted("pin") =>
             /\ ServerHas(remote', pending["pin"].id)
             /\ notes'[pending["pin"].i] =
                    Authoritative(pending["pin"].id)]_vars

(***************************************************************************)
(* Claims about the remote helpers (SpecApi)                               *)
(***************************************************************************)
\* the response is not a list of notes: no response, a status outside
\* 200..299, a body that cannot be read or is not JSON, a JSON value that
\* is not an array
ListFault(res) ==
    \/ res.net = "rejects"
    \/ res.status < 200 \/ res.status > 299
    \/ res.bodyFails
    \/ res.body.text # "json"
    \/ res.body.value.kind # "array"

\* the Note shape as the normalization gives it: the six properties, id a
\* string, both timestamps numbers, pinned a boolean, title and content
\* present
NormalizedNote(o) ==
    /\ DOMAIN o = NoteFields
    /\ o.id.k = "string"
    /\ o.createdAt.k = "number"
    /\ o.updatedAt.k = "number"
    /\ o.pinned.k = "boolean"
    /\ ~Nullish(o.title)
    /\ ~Nullish(o.content)

\* C24: for every outcome of the transport the remote helpers return a
\* value and do not throw: loadNotesFromApi an array of notes, empty on a
\* fault; createNoteViaApi and updateNoteViaApi a normalized note or null;
\* deleteNoteViaApi true or false.
C24_FaultsAreValues ==
    uPc = "done" =>
        /\ uOut.outcome # "throws"
        /\ uIn.fn = "list" =>
              /\ uOut.outcome = "array"
              /\ \A i \in 1..Len(uOut.items) : NormalizedNote(uOut.items[i])
              /\ ListFault(uIn.res) => uOut.items = <<>>
        /\ uIn.fn \in {"create", "update"} =>
              /\ uOut.outcome \in {"note", "null"}
              /\ uOut.outcome = "note" => NormalizedNote(uOut.note)
        /\ uIn.fn = "delete" => uOut.outcome \in {"true", "false"}

\* updateNoteViaApi has returned null for a 200 response whose JSON body
\* cannot be parsed (updated.id of null throws inside the try block)
C24_Witness ==
    /\ uPc = "done"
    /\ uIn.fn = "update"
    /\ uIn.res.net = "answers" /\ uIn.res.status = 200
    /\ uIn.res.json /\ uIn.res.body.text = "garbage" /\ ~uIn.res.bodyFails
    /\ UpdateNoteTry(uIn.res, uIn.listRes, uIn.id, uIn.title, uIn.content,
                     uIn.pinned, uIn.now) = Throws
    /\ uOut = ReturnsNull

(***************************************************************************)
(* Claims about the normalization of a remote record (SpecToMs)            *)
(***************************************************************************)
IsJsNumber(v) == v.k \in {"number", "infinity"}

AtOrAbove(v, n) == v.k = "infinity" \/ (v.k = "number" /\ v.n >= n)

\* C31: toMs gives v for a number at or above 10^12, v * 1000 for a number
\* below it, the parsed epoch milliseconds for a date string that can be
\* parsed, the current time for an absent or unparsable value; the result
\* is always a finite number.
C31_TimestampNormalization ==
    uPc = "done" =>
        /\ AtOrAbove(uIn.v, MsThreshold) => uOut = uIn.v
        /\ (uIn.v.k = "number" /\ uIn.v.n < MsThreshold) =>
               uOut = JsNum(uIn.v.n * 1000)
        /\ (uIn.v.k = "string" /\ uIn.v.s \in DateTexts) =>
               uOut = JsNum(DateParse(uIn.v.s))
        /\ (Nullish(uIn.v) \/ (uIn.v.k = "string" /\ uIn.v.s \notin DateTexts)) =>
               uOut = JsNum(uIn.now)
        /\ uOut.k = "number"

\* the places of the id fields that hold a value (neither missing nor null)
Populated(n) == {i \in 1..Len(IdAliases) : ~Nullish(n[IdAliases[i]])}

FirstPopulated(n) ==
    n[IdAliases[CHOOSE i \in Populated(n) : \A j \in Populated(n) : i <= j]]

\* C32: a normalized remote record takes as id the string form of the first
\* populated field in the order id, noteId, noteID, guid, uuid, _id, key,
\* and a freshly minted identifier only when none is populated; its pinned
\* is false when the record has no pinned field; two fetches of a record
\* that carries an id give the same local id.
C32_IdAndPinNormalization ==
    uPc = "done" =>
        /\ \A k \in 1..2 :
              /\ Populated(uIn) # {} =>
                     uOut[k].id = JsStr(StringOf(FirstPopulated(uIn)))
              /\ uOut[k].id = MintedIds[k] <=> Populated(uIn) = {}
              /\ uIn["pinned"] = JsUndef => uOut[k].pinned = JsBool(FALSE)
        /\ Populated(uIn) # {} => uOut[1].id = uOut[2].id

\* a record whose id is null and whose first id field with a value is guid,
\* with later id fields set too and no pinned field, was normalized twice
C32_Witness ==
    /\ uPc = "done"
    /\ uIn["id"] = JsNull
    /\ Populated(uIn) = {4, 6, 7}
    /\ uIn["pinned"] = JsUndef
    /\ uOut[1] = [id |-> JsStr("guid"), pinned |-> JsBool(FALSE)]
    /\ uOut[2] = uOut[1]

(***************************************************************************)
(* Claims about timeAgo (SpecTime)                                         *)
(***************************************************************************)
\* Date.now() - ts < 0
InFuture(ts, nowT) == ts.s > nowT.s \/ (ts.s = nowT.s /\ ts.ms > nowT.ms)

\* the count timeAgo stays below in a unit
UnitLimit(unit) ==
    IF unit = "minute" THEN 60
    ELSE IF unit = "hour" THEN 24
    ELSE IF unit = "day" THEN 7
    ELSE IF unit = "week" THEN 5
    ELSE IF unit = "month" THEN 12
    ELSE 0

\* C34: timeAgo(ts) of a timestamp in the future gives the formatter's
\* future phrasing ("in ..."); of a timestamp in the past it gives 'gerade
\* eben' below 45 seconds and otherwise a past phrasing ("vor ...") in
\* minutes (< 60), hours (< 24), days (< 7), weeks (< 5), months (< 12) or
\* years.
C34_RelativeTime ==
    uPc = "done" =>
        IF InFuture(uIn.ts, uIn.now)
        THEN uOut.text = "in"
        ELSE IF ElapsedSeconds(uIn.now, uIn.ts) < 45
        THEN uOut = JustNow
        ELSE /\ uOut.text = "vor"
             /\ uOut.n >= 1
             /\ uOut.unit = "year" \/ uOut.n < UnitLimit(uOut.unit)

(***************************************************************************)
(* Claims about the theme controller (SpecTheme)                           *)
(***************************************************************************)
EffectiveTheme == GetEffectiveTheme(themeChoice, prefersDark)

\* C35: toggleTheme persists as explicit choice the opposite of the theme
\* that was effective before the call ('dark' becomes 'light', otherwise
\* 'dark'); so after a toggle the stored choice is 'light' or 'dark' until
\* a reset, two consecutive toggles restore the effective theme, and reset
\* removes the stored choice.
C35_ThemeToggle ==
    [][/\ ToggleTheme =>
             /\ themeChoice' = (IF EffectiveTheme = "dark" THEN "light"
                                ELSE "dark")
             /\ themeOp.kind \in {"toggle", "toggle-threw"} =>
                    EffectiveTheme' = themeOp.was
       /\ (themeChoice \in ThemeChoices /\ ~ResetToSystemTheme) =>
             themeChoice' \in ThemeChoices
       /\ ResetToSystemTheme => themeChoice' = NoTheme]_vars

\* C38: once initThemeController has run, the data-theme attribute is
\* present exactly when an explicit choice is stored, and then equals it,
\* after every toggle, reset and change of the OS setting; a change of the
\* OS setting never alters the stored choice.
C38_AttributeMirrorsChoice ==
    /\ [](themePc = "ready" => dataTheme = themeChoice)
    /\ [][SystemPreferenceChange => themeChoice' = themeChoice]_vars

\* the OS setting has changed right after a toggle: the stored choice and
\* the attribute still hold the toggled theme, opposite to the OS setting
C38_Witness ==
    /\ themePc = "ready"
    /\ themeOp.kind = "system" /\ themeOp.prev = "toggle"
    /\ themeChoice = "light" /\ dataTheme = "light"
    /\ prefersDark

(***************************************************************************)
(* Claims about the health indicator (SpecProbe)                           *)
(***************************************************************************)
\* C29: when from some point on the backend stays reachable and every
\* pingApi() call completes, the availability flag is eventually true and
\* stays true; when it stays unreachable, the flag is eventually false and
\* stays false.  Calls may reach setState in another order than they were
\* started in.
C29_FlagConverges ==
    /\ <>[]reachable => <>[]apiOnline
    /\ <>[](~reachable) => <>[](~apiOnline)

\* the backend is reachable and the flag is false, because the failure of
\* an older call reached setState after a call started later had reached it
C29_Witness ==
    /\ reachable
    /\ ~apiOnline
    /\ lastOp.kind = "probe" /\ lastOp.result = "fail" /\ lastOp.late

(***************************************************************************)
(* Claims about the read path (SpecRead)                                   *)
(***************************************************************************)
\* C23: once startup hydration or a refresh has put the loading
\* placeholder into the notes list, the list eventually shows the
\* collection again, whether the backend answers, fails or never responds.
\* (A request that is never answered leaves its handler suspended for
\* good, and refreshFromApi does not reach render() when saveNotes throws.)
C23_ReadPathLeavesPlaceholder == dom.loading ~> ~dom.loading

(***************************************************************************)
(* Claims about the stored blob, delete and the edit session (Spec)        *)
(***************************************************************************)
\* a step in which a hydrate, refresh, create, edit-save, pin-toggle,
\* delete or import handler ends
EndsHandler ==
    \E k \in SyncKinds \cup WriteKinds \cup {"import"} :
        /\ Active(k)
        /\ pending'[k].stage \in {"idle", "done"}

\* loadNotes() of the stored blob gives exactly the array `notes`
BlobMirrors(b, ns) == LoadNotes(b).kind = "array" /\ LoadNotes(b).items = ns

\* C36: after initialization and after every completed handler in which no
\* save failed, the stored blob deserializes to the in-memory collection.
\* (A handler that saves nothing, such as a failed create or a hydrate that
\* finds the backend empty, leaves behind what an earlier failed save left.)
C36_BlobMirrorsMemory ==
    /\ pending["hydrate"].stage = "init" => BlobMirrors(blob, notes)
    /\ [][(EndsHandler /\ lastOp'.result # "save-fail") =>
             BlobMirrors(blob', notes')]_vars

IsOther(x, d) == IsNote(x) /\ x.id # d

\* the notes of ns other than the one with id d, in their order
RECURSIVE OthersOf(_, _)
OthersOf(ns, d) ==
    IF ns = <<>> THEN <<>>
    ELSE (IF IsOther(Head(ns), d) THEN <<Head(ns)>> ELSE <<>>)
         \o OthersOf(Tail(ns), d)

\* C37: a confirmed and remotely successful delete of id d removes the
\* note with id d from the collection and leaves every other note present
\* and unchanged, in its order; a cancelled confirmation and a delete the
\* backend refuses change nothing.
C37_DeleteRemovesOnlyTarget ==
    [][/\ (pending["delete"].stage = "sent" /\ pending'["delete"].stage = "idle") =>
             IF lastOp'.result = "remote-fail"
             THEN notes' = notes /\ blob' = blob
             ELSE /\ pending["delete"].id \notin NoteIds(notes')
                  /\ notes' = OthersOf(notes, pending["delete"].id)
       /\ (pending["delete"].stage = "dialog" /\ pending'["delete"].stage = "idle") =>
             notes' = notes /\ blob' = blob /\ remote' = remote]_vars

\* a delete has removed its note from a collection that held another note
\* before it, and that note is still there
C37_Witness ==
    /\ lastOp.kind = "delete" /\ lastOp.result = "ok"
    /\ lastOp.id \in NoteIds(lastOp.pre)
    /\ NoteIds(lastOp.pre) # {lastOp.id}
    /\ FindIndex(lastOp.pre, lastOp.id) = 1
    /\ notes = OthersOf(lastOp.pre, lastOp.id)
    /\ notes # <<>>

\* C39: whenever an edit session is open (editingId is set, and with it
\* the edit modal is shown: every handler assigns editModal.hidden in the
\* statements next to editingId), editingId is the id of a note of the
\* current collection.
C39_EditSessionNamesANote ==
    editingId # NoId => editingId \in NoteIds(notes)

=============================================================================
